---- MODULE Spec2Model ----
(***************************************************************************)
(* Realtime audio/session pipeline of the AI English tutor: the VoiceChat  *)
(* conversation view (components/VoiceChat.tsx) driving setupLiveSession   *)
(* (services/geminiService.ts).                                            *)
(*                                                                         *)
(* React state is kept twice: `state` holds every hook's value with all    *)
(* queued updates applied, `rendered` the values the closures of the last  *)
(* committed render captured.  Refs are plain mutable cells (`refs`).      *)
(* `dev` holds the                                                         *)
(* browser/SDK objects the view created: microphone streams, audio         *)
(* contexts, live sockets, output clocks.  Every initializeAudio call is   *)
(* an attempt 1..MaxAttempts and owns the objects it creates.              *)
(***************************************************************************)
EXTENDS Integers, Sequences, FiniteSets, TLC

\* ---------------------------------------------------------------- bounds
MaxAttempts == 2
MaxPlaybackAttempts == 1
MaxClock == 1
MaxMsgs == 2
MaxDur == 1
MaxTextMsgs == 3
MaxDialogs == 1
MaxRequests == 2
MaxFeedbackMsgs == 4
MaxBlocks == 3
MaxSends == 2
MaxChunks == 2

Attempts == 1..MaxAttempts
Durations == 1..MaxDur
\* the presses of a pronunciation button, in the order they are made
Requests == 1..MaxRequests

Null == 0
\* a text is a sequence of tokens; concatenation of strings is concatenation of sequences
NoText == <<>>
NoFeedback == [none |-> TRUE]
NoTurn == [none |-> TRUE]

\* the literal delimiters of parseFeedback, as transcript tokens
feedbackStart == "### FEEDBACK ###"
feedbackEnd == "### END FEEDBACK ###"

\* transcription deltas: a user phrase, a plain reply and a reply that ends in a feedback block
InputDeltas == {<<"Hola">>}
FeedbackReply ==
  <<"Nice", "\n", feedbackStart, "\n", "Type:", " ", "grammar", "\n",
    "Correction:", " ", "went", "\n", feedbackEnd>>

OutputDeltas == {<<"Hello friend">>, FeedbackReply}

Max(a, b) == IF a >= b THEN a ELSE b

VARIABLES
  state,              \* React state, queued updates applied
  rendered,           \* the state values captured by the closures of the last render
  refs,               \* useRef cells
  dev,                \* streams, audio contexts, sockets, clocks, stopped source nodes
  initPc,             \* position of each initializeAudio call
  onCloseIsRecording, \* isRecording as captured by each attempt's onCloseCallback
  decoding,           \* onmessage invocations suspended at `await decodeAudioData`
  nMsgs,              \* inbound messages delivered so far
  heard,              \* deltas delivered since the last turn completion, in arrival order
  lastTurn,           \* what the last turn completion finalized, and what had been heard
  playLog,            \* the last two source.start() calls since the last scheduler reset
  lastOp,             \* the handler that ran in the last step
  stoppedMidAttempt   \* Stop was pressed while the current attempt was still pending

vars == <<state, rendered, refs, dev, initPc, onCloseIsRecording, decoding,
          nMsgs, heard, lastTurn, playLog, lastOp, stoppedMidAttempt>>

\* The part of the program an operation body reads and writes.
World == [state |-> state, refs |-> refs, dev |-> dev]

\* ------------------------------------------------------- string helpers
\* String.prototype.indexOf on a token sequence: first position (1-based), 0 if absent
IndexOf(s, t) ==
  IF \E i \in 1..Len(s) : s[i] = t
    THEN CHOOSE i \in 1..Len(s) : s[i] = t /\ \A j \in 1..(i-1) : s[j] # t
    ELSE 0

\* white space as the regular expressions and trim() see it
IsSpace(tok) == tok \in {" ", "\n"}

\* String.prototype.trim
Trim(s) ==
  LET solid == {i \in 1..Len(s) : ~IsSpace(s[i])}
  IN IF solid = {} THEN NoText
     ELSE SubSeq(s, CHOOSE i \in solid : \A j \in solid : i <= j,
                    CHOOSE i \in solid : \A j \in solid : j <= i)

\* a token in lower case (the tokens that have upper-case letters are listed)
Lower(tok) ==
  CASE tok \in {"Type:", "TYPE:"} -> "type:"
    [] tok = "Original:" -> "original:"
    [] tok \in {"Correction:", "CORRECTION:"} -> "correction:"
    [] tok = "Explanation:" -> "explanation:"
    [] tok = "Grammar" -> "grammar"
    [] tok = "Spelling" -> "spelling"
    [] tok = "X" -> "x"
    [] tok = "Y" -> "y"
    [] tok = "Y2" -> "y2"
    [] tok = "Z" -> "z"
    [] OTHER -> tok

\* String.prototype.toLowerCase
ToLowerCase(s) == [i \in 1..Len(s) |-> Lower(s[i])]

\* String.prototype.substring(from, to) with 0-based character positions given as the
\* 1-based token positions from+1 .. to: the arguments are swapped when from > to
Substring(s, from, to) ==
  IF from <= to THEN SubSeq(s, from + 1, to) ELSE SubSeq(s, to + 1, from)

\* the match is taken at the last occurrence of the label
Match_LastOccurrence(block, label) ==
  LET hits == {i \in 1..Len(block) : Lower(block[i]) = label}
  IN IF hits = {} THEN [found |-> FALSE, value |-> NoText]
     ELSE LET i == CHOOSE h \in hits : \A g \in hits : g <= h
              rest == {j \in (i+1)..Len(block) : ~IsSpace(block[j])}
          IN IF rest = {} THEN [found |-> TRUE, value |-> NoText]
             ELSE LET j == CHOOSE r \in rest : \A q \in rest : r <= q
                      ends == {k \in j..Len(block) : block[k] = "\n"}
                      e == IF ends = {} THEN Len(block)
                           ELSE (CHOOSE k \in ends : \A q \in ends : k <= q) - 1
                  IN [found |-> TRUE, value |-> SubSeq(block, j, e)]

\* block.match(/label\s*(.*)/i): the first occurrence of the label in any case, then
\* \s* runs over blanks and line breaks, then (.*) captures up to the end of that line
Match(block, label) ==
  LET hits == {i \in 1..Len(block) : Lower(block[i]) = label}
  IN IF hits = {} THEN [found |-> FALSE, value |-> NoText]
     ELSE LET i == CHOOSE h \in hits : \A g \in hits : h <= g
              rest == {j \in (i+1)..Len(block) : ~IsSpace(block[j])}
          IN IF rest = {} THEN [found |-> TRUE, value |-> NoText]
             ELSE LET j == CHOOSE r \in rest : \A q \in rest : r <= q
                      ends == {k \in j..Len(block) : block[k] = "\n"}
                      e == IF ends = {} THEN Len(block)
                           ELSE (CHOOSE k \in ends : \A q \in ends : k <= q) - 1
                  IN [found |-> TRUE, value |-> SubSeq(block, j, e)]

\* the feedback record built when the Correction field matched
FeedbackItem(typeMatch, originalMatch, correctionMatch, explanationMatch) ==
  [type |-> IF ToLowerCase(Trim(typeMatch.value)) # NoText
              THEN ToLowerCase(Trim(typeMatch.value)) ELSE <<"general">>,
   original |-> Trim(originalMatch.value),
   correction |-> Trim(correctionMatch.value),
   explanation |-> Trim(explanationMatch.value)]

\* the start marker alone opens a block, which then runs to the end of the text
parseFeedback_StartOnly(aiResponseText) ==
  LET startIndex == IndexOf(aiResponseText, feedbackStart)
  IN IF startIndex # 0
       THEN LET feedbackBlock == Trim(SubSeq(aiResponseText, startIndex + 1,
                                             Len(aiResponseText)))
                correctionMatch == Match(feedbackBlock, "correction:")
            IN [conversationalText |-> Trim(SubSeq(aiResponseText, 1, startIndex - 1)),
                feedback |->
                  IF correctionMatch.found
                    THEN FeedbackItem(Match(feedbackBlock, "type:"),
                                      Match(feedbackBlock, "original:"),
                                      correctionMatch,
                                      Match(feedbackBlock, "explanation:"))
                    ELSE NoFeedback]
       ELSE [conversationalText |-> aiResponseText, feedback |-> NoFeedback]

\* startIndex and endIndex are 1-based token positions, 0 for the -1 of indexOf; each
\* marker is one token
parseFeedback(aiResponseText) ==
  LET startIndex == IndexOf(aiResponseText, feedbackStart)
      endIndex == IndexOf(aiResponseText, feedbackEnd)
  IN IF startIndex # 0 /\ endIndex # 0
       THEN LET feedbackBlock == Trim(Substring(aiResponseText, startIndex, endIndex - 1))
                typeMatch == Match(feedbackBlock, "type:")
                originalMatch == Match(feedbackBlock, "original:")
                correctionMatch == Match(feedbackBlock, "correction:")
                explanationMatch == Match(feedbackBlock, "explanation:")
            IN [conversationalText |-> Trim(SubSeq(aiResponseText, 1, startIndex - 1)),
                feedback |->
                  IF correctionMatch.found
                    THEN FeedbackItem(typeMatch, originalMatch, correctionMatch,
                                      explanationMatch)
                    ELSE NoFeedback]
       ELSE [conversationalText |-> aiResponseText, feedback |-> NoFeedback]

\* ---------------------------------------------- AI texts given to the parser
\* one field of a feedback block on a line of its own
Line(label, value) == <<label, " ">> \o value \o <<"\n">>

\* text P followed by a block with the four fields, one field per line
Canonical(P, X, Y, Z) ==
  P \o <<"\n", feedbackStart, "\n">>
    \o Line("Type:", <<"Grammar">>) \o Line("Original:", X)
    \o Line("Correction:", Y) \o Line("Explanation:", Z)
    \o <<feedbackEnd>>

ConversationalTexts == {<<"Nice">>, <<"Nice", " ", "work", " ">>}
OriginalValues == {<<"X">>, NoText}
CorrectionValues == {<<"Y">>}
ExplanationValues == {<<"Z">>, <<"Z", " ">>}

CanonicalTexts ==
  {Canonical(P, X, Y, Z) : P \in ConversationalTexts, X \in OriginalValues,
                           Y \in CorrectionValues, Z \in ExplanationValues}

NoMarkers == <<" ", "Hello friend", "\n">>
NoMarkersWithField == <<"Nice", "\n", "Correction:", " ", "Y">>
StartOnly == <<"Nice", "\n", feedbackStart, "\n", "Correction:", " ", "Y">>
EndOnly == <<"Nice", "\n", "Correction:", " ", "Y", "\n", feedbackEnd>>
EndBeforeStart == <<feedbackEnd, "\n", "Correction:", " ", "Y", "\n", feedbackStart>>
NoCorrection ==
  <<"Nice", "\n", feedbackStart, "\n">> \o Line("Type:", <<"Grammar">>)
    \o Line("Original:", <<"X">>) \o <<feedbackEnd>>
CorrectionOnly ==
  <<"Nice", "\n", feedbackStart, "\n">> \o Line("Correction:", <<"Y">>)
    \o <<feedbackEnd>>
UpperCaseLabels ==
  <<"Nice", "\n", feedbackStart, "\n">> \o Line("TYPE:", <<"Grammar">>)
    \o Line("CORRECTION:", <<"Y">>) \o <<feedbackEnd>>
TwoCorrections ==
  <<"Nice", "\n", feedbackStart, "\n">> \o Line("Correction:", <<"Y">>)
    \o Line("Correction:", <<"Y2">>) \o <<feedbackEnd>>
OtherType ==
  <<"Nice", "\n", feedbackStart, "\n">> \o Line("Type:", <<"Spelling">>)
    \o Line("Correction:", <<"Y">>) \o <<feedbackEnd>>

\* the AI texts of one turn that reach the parser
ParseTexts ==
  CanonicalTexts \cup {NoMarkers, NoMarkersWithField, StartOnly, EndOnly, EndBeforeStart,
                       NoCorrection, CorrectionOnly, UpperCaseLabels, TwoCorrections,
                       OtherType}

\* ------------------------------------------------ teardown building blocks
\* WebSocket close(): an open or connecting socket starts closing; otherwise a no-op
CloseSocket(s) == IF s \in {"connecting", "open"} THEN "closing" ELSE s

\* AudioContext.close(): a closed context stays closed (the rejection is caught)
CloseContext(c) == IF c = "running" THEN "closed" ELSE c

resetAudioContexts(w) ==
  LET w1 == IF w.refs.inputAudioContextRef # Null
              THEN [w EXCEPT !.dev.inCtx[w.refs.inputAudioContextRef] = CloseContext(@),
                             !.refs.inputAudioContextRef = Null]
              ELSE w
  IN IF w1.refs.outputAudioContextRef # Null
       THEN [w1 EXCEPT !.dev.outCtx[w1.refs.outputAudioContextRef] = CloseContext(@),
                       !.refs.outputAudioContextRef = Null]
       ELSE w1

stopMediaStream(w) ==
  IF w.refs.mediaStreamRef # Null
    THEN [w EXCEPT !.dev.stream[w.refs.mediaStreamRef] = "stopped",
                   !.refs.mediaStreamRef = Null]
    ELSE w

\* the sources are stopped but stay in the set
StopAllSources_NoClear(w) ==
  [w EXCEPT !.dev.stoppedSources = @ \cup {n.id : n \in w.refs.audioSourceNodesRef}]

\* audioSourceNodesRef.current.forEach(source => source.stop()); .clear()
StopAllSources(w) ==
  [w EXCEPT !.dev.stoppedSources = @ \cup {n.id : n \in w.refs.audioSourceNodesRef},
            !.refs.audioSourceNodesRef = {}]

\* AudioBufferSourceNode.stop() on the pronunciation source r: the audio halts, the
\* 'ended' event is still to come
StopPronunciationSource(w, r) ==
  [w EXCEPT !.dev.pron[r] = IF @ = "playing" THEN "stopped" ELSE @]

\* the teardown also empties the session notes
stopConversation_DropsNotes(w) ==
  LET w1 == [w EXCEPT !.state.isRecording = FALSE, !.state.isSessionReady = FALSE]
      w2 == IF w1.refs.liveSessionRef # Null
              THEN [w1 EXCEPT !.dev.sock[w1.refs.liveSessionRef] = CloseSocket(@),
                              !.refs.liveSessionRef = Null]
              ELSE w1
      w3 == StopAllSources(resetAudioContexts(stopMediaStream(w2)))
      w4 == IF w3.refs.currentPronunciationSource # Null
              THEN StopPronunciationSource(w3, w3.refs.currentPronunciationSource)
              ELSE w3
  IN [w4 EXCEPT !.state.playingAudioKey = Null,
                !.state.sessionNotes = <<>>,
                !.refs.currentPronunciationSource = Null,
                !.refs.nextStartTimeRef = 0,
                !.state.currentInputTranscription = NoText,
                !.state.currentOutputTranscription = NoText]

stopConversation(w) ==
  LET w1 == [w EXCEPT !.state.isRecording = FALSE, !.state.isSessionReady = FALSE]
      w2 == IF w1.refs.liveSessionRef # Null
              THEN [w1 EXCEPT !.dev.sock[w1.refs.liveSessionRef] = CloseSocket(@),
                              !.refs.liveSessionRef = Null]
              ELSE w1
      w3 == StopAllSources(resetAudioContexts(stopMediaStream(w2)))
      w4 == IF w3.refs.currentPronunciationSource # Null
              THEN [StopPronunciationSource(w3, w3.refs.currentPronunciationSource)
                      EXCEPT !.refs.currentPronunciationSource = Null]
              ELSE w3
  IN [w4 EXCEPT !.state.playingAudioKey = Null,
                !.refs.nextStartTimeRef = 0,
                !.state.currentInputTranscription = NoText,
                !.state.currentOutputTranscription = NoText]

\* ------------------------------------------------------ playback scheduler
\* nextStartTime is overwritten with the clock instead of clamped to it
ClampToClock_NoMax(nextStartTime, currentTime) == currentTime

\* onmessage, audio branch before the await: nextStartTime = max(nextStartTime, currentTime)
ClampToClock(nextStartTime, currentTime) == Max(nextStartTime, currentTime)

\* the source is started and registered but nextStartTime is not advanced
ScheduleChunk_NoAdvance(w, h) ==
  LET startAt == w.refs.nextStartTimeRef
      source == [id |-> h.id, att |-> h.att, at |-> startAt, dur |-> h.msg.audio]
  IN [w EXCEPT !.refs.audioSourceNodesRef = @ \cup {source}]

\* onmessage, audio branch after the await: start the source, advance, register
ScheduleChunk(w, h) ==
  LET startAt == w.refs.nextStartTimeRef
      source == [id |-> h.id, att |-> h.att, at |-> startAt, dur |-> h.msg.audio]
  IN [w EXCEPT !.refs.nextStartTimeRef = startAt + h.msg.audio,
               !.refs.audioSourceNodesRef = @ \cup {source}]

\* the sources are stopped and deleted but nextStartTime is left as it was
Interrupt_KeepsNextStart(w) ==
  [w EXCEPT !.dev.stoppedSources = @ \cup {n.id : n \in w.refs.audioSourceNodesRef},
            !.refs.audioSourceNodesRef = {}]

\* onmessage, interrupted branch: stop and delete every source, nextStartTime = 0
Interrupt(w) ==
  [w EXCEPT !.dev.stoppedSources = @ \cup {n.id : n \in w.refs.audioSourceNodesRef},
            !.refs.audioSourceNodesRef = {},
            !.refs.nextStartTimeRef = 0]

\* ------------------------------------------------- conversation callbacks
onOpenCallback(w) ==
  [w EXCEPT !.state.isSessionReady = TRUE,
            !.state.isLoadingMedia = FALSE,
            !.state.conversation =
               Append(@, [role |-> "ai", text |-> <<"greeting">>, feedback |-> NoFeedback])]

\* the transcript entries a turn completion finalizes from the two ref values
NewMessages_AiFirst(latestInput, latestOutput) ==
  (IF latestOutput # NoText
     THEN <<[role |-> "ai", text |-> parseFeedback(latestOutput).conversationalText,
             feedback |-> parseFeedback(latestOutput).feedback]>>
     ELSE <<>>)
  \o
  (IF latestInput # NoText
     THEN <<[role |-> "user", text |-> latestInput, feedback |-> NoFeedback]>>
     ELSE <<>>)

NewMessages(latestInput, latestOutput) ==
  (IF latestInput # NoText
     THEN <<[role |-> "user", text |-> latestInput, feedback |-> NoFeedback]>>
     ELSE <<>>)
  \o
  (IF latestOutput # NoText
     THEN <<[role |-> "ai", text |-> parseFeedback(latestOutput).conversationalText,
             feedback |-> parseFeedback(latestOutput).feedback]>>
     ELSE <<>>)

onMessageLogic(w, m) ==
  LET w1 == IF m.output # NoText
              THEN [w EXCEPT !.state.currentOutputTranscription = @ \o m.output]
              ELSE w
      w2 == IF m.input # NoText
              THEN [w1 EXCEPT !.state.currentInputTranscription = @ \o m.input]
              ELSE w1
      latestInputTranscription == w2.refs.currentInputTranscriptionRef
      latestOutputTranscription == w2.refs.currentOutputTranscriptionRef
      feedback == parseFeedback(latestOutputTranscription).feedback
  IN IF m.turnComplete
       THEN [w2 EXCEPT
               !.state.sessionNotes =
                  IF latestOutputTranscription # NoText /\ feedback # NoFeedback
                    THEN Append(@, feedback) ELSE @,
               !.state.conversation =
                  @ \o NewMessages(latestInputTranscription, latestOutputTranscription),
               !.state.currentInputTranscription = NoText,
               !.state.currentOutputTranscription = NoText]
       ELSE w2

\* the catch block sets the error and the flags but does not tear down
InitializeAudioCatch_NoTeardown(w) ==
  [w EXCEPT !.state.error = "failed_to_start",
            !.state.isLoadingMedia = FALSE,
            !.state.isSessionReady = FALSE]

\* the catch block of initializeAudio
InitializeAudioCatch(w) ==
  stopConversation([w EXCEPT !.state.error = "failed_to_start",
                             !.state.isLoadingMedia = FALSE,
                             !.state.isSessionReady = FALSE])

\* what the closures created by a render capture of the state
Captured(st) ==
  [isRecording |-> st.isRecording, isLoadingMedia |-> st.isLoadingMedia,
   playingAudioKey |-> st.playingAudioKey,
   textInput |-> st.textInput, textIsLoading |-> st.textIsLoading]

\* the ref-sync effects that follow a committed render
Commit(w) ==
  [w EXCEPT !.refs.currentInputTranscriptionRef = w.state.currentInputTranscription,
            !.refs.currentOutputTranscriptionRef = w.state.currentOutputTranscription]


\* ------------------------------------------------------------------ state
Blank ==
  [audio |-> 0, interrupted |-> FALSE, input |-> NoText, output |-> NoText,
   turnComplete |-> FALSE]

\* inbound messages that drive the playback scheduler; a chunk interrupted by its own
\* message is stopped at once, whatever its duration
AudioMessages ==
  {[Blank EXCEPT !.audio = d] : d \in Durations}
  \cup {[Blank EXCEPT !.interrupted = TRUE]}
  \cup {[Blank EXCEPT !.audio = MaxDur, !.interrupted = TRUE]}

\* inbound messages that drive the transcript; a turn completion may carry the last delta
TextMessages ==
  {[Blank EXCEPT !.input = t] : t \in InputDeltas}
  \cup {[Blank EXCEPT !.output = t] : t \in OutputDeltas}
  \cup {[Blank EXCEPT !.turnComplete = TRUE]}
  \cup {[Blank EXCEPT !.output = <<"Hello friend">>, !.turnComplete = TRUE]}

InitState ==
  [isRecording |-> FALSE, isSessionReady |-> FALSE, isLoadingMedia |-> FALSE,
   conversation |-> <<>>, sessionNotes |-> <<>>,
   currentInputTranscription |-> NoText, currentOutputTranscription |-> NoText,
   error |-> "none", playingAudioKey |-> Null,
   \* SpanishTranslator only; no VoiceChat handler touches it
   currentTurnStage |-> "spanish_input",
   \* TextChat only: its messages, input, isLoading and error
   textMessages |-> <<>>, textInput |-> NoText, textIsLoading |-> FALSE,
   textError |-> "none"]

InitRefs ==
  [liveSessionRef |-> Null, mediaStreamRef |-> Null,
   inputAudioContextRef |-> Null, outputAudioContextRef |-> Null,
   nextStartTimeRef |-> 0, audioSourceNodesRef |-> {},
   currentPronunciationSource |-> Null,
   currentInputTranscriptionRef |-> NoText, currentOutputTranscriptionRef |-> NoText,
   \* SpanishTranslator only
   currentTurnStageRef |-> "spanish_input",
   \* TextChat only
   chatRef |-> Null]

InitDev ==
  [stream |-> [a \in Attempts |-> "none"],
   inCtx |-> [a \in Attempts |-> "none"],
   outCtx |-> [a \in Attempts |-> "none"],
   sock |-> [a \in Attempts |-> "none"],
   clock |-> [a \in Attempts |-> 0],
   stoppedSources |-> {},
   \* key-selection dialogs (window.aistudio.openSelectKey) that have not settled
   keyDialogs |-> 0,
   \* where each pronunciation request stands: idle, synth (awaiting generateSpeechForText),
   \* decode (awaiting decodeAudioData), playing, stopped (stop() called, 'ended' to come), done
   pron |-> [r \in Requests |-> "idle"],
   \* the conversation view has been unmounted (the app mode was switched)
   unmounted |-> FALSE,
   \* the script processor of the attempt is connected (onopen has run)
   processor |-> [a \in Attempts |-> FALSE],
   \* per attempt, the microphone blocks its processor delivered, in capture order: for
   \* each whether the session was open at that moment
   blocks |-> [a \in Attempts |-> <<>>],
   \* per attempt, the numbers of the blocks transmitted on its session, in order
   frames |-> [a \in Attempts |-> <<>>],
   \* the mode prop of the mounted TextChat, "none" before it is mounted
   textMode |-> "none",
   \* where each accepted send stands: idle, pending (awaiting the service call),
   \* streaming (inside the for-await loop), done (the handler has returned); full is its
   \* aiFullResponse
   textRequests |-> [i \in 1..MaxSends |-> [pc |-> "idle", full |-> NoText]]]

\* lastOp: the handler that ran in the last step, as far as the properties tell them apart
Op(name, a) == [op |-> name, att |-> a, open |-> FALSE, cleared |-> FALSE]

Other == Op("other", Null)

\* lastOp of a handler that runs stopConversation in world w: the session referenced
\* then, whether it was open, and whether any source was active
TeardownOp(name, w) ==
  [op |-> name, att |-> w.refs.liveSessionRef,
   open |-> /\ w.refs.liveSessionRef # Null
            /\ w.dev.sock[w.refs.liveSessionRef] = "open",
   cleared |-> w.refs.audioSourceNodesRef # {}]

Pending(a) == initPc[a] \in {"mic", "connect"}

Init ==
  /\ state = InitState
  /\ rendered = Captured(InitState)
  /\ refs = InitRefs
  /\ dev = InitDev
  /\ initPc = [a \in Attempts |-> "idle"]
  /\ onCloseIsRecording = [a \in Attempts |-> FALSE]
  /\ decoding = {}
  /\ nMsgs = 0
  /\ heard = [input |-> NoText, output |-> NoText]
  /\ lastTurn = NoTurn
  /\ playLog = <<>>
  /\ lastOp = Op("init", Null)
  /\ stoppedMidAttempt = FALSE

\* assign the three program variables from a world value
Becomes(w) == state' = w.state /\ refs' = w.refs /\ dev' = w.dev

\* a source.start() is logged; only the last two are kept
LogChunk(log, c) == IF Len(log) < 2 THEN Append(log, c) ELSE <<log[2], c>>

EmptyHeard == [input |-> NoText, output |-> NoText]


\* ---------------------------------------------------------------- actions
\* startConversation up to the call of initializeAudio
startConversation(w) ==
  LET w1 == [w EXCEPT !.state.conversation = <<>>,
                      !.state.currentInputTranscription = NoText,
                      !.state.currentOutputTranscription = NoText,
                      !.refs.nextStartTimeRef = 0]
  IN [StopAllSources(w1) EXCEPT !.state.isRecording = TRUE]

\* the notes of the previous session are kept
InitializeAudioBegin_KeepsNotes(w) ==
  resetAudioContexts(stopMediaStream(
    [w EXCEPT !.state.isLoadingMedia = TRUE,
              !.state.error = "none"]))

\* initializeAudio up to `await getUserMedia`
InitializeAudioBegin(w) ==
  resetAudioContexts(stopMediaStream(
    [w EXCEPT !.state.isLoadingMedia = TRUE,
              !.state.error = "none",
              !.state.sessionNotes = <<>>]))

\* initializeAudio between `await getUserMedia` and `await setupLiveSession`
InitializeAudioConnect(w, a) ==
  [w EXCEPT !.refs.mediaStreamRef = a,
            !.dev.stream[a] = "live",
            !.dev.inCtx[a] = "running",
            !.dev.outCtx[a] = "running",
            !.refs.inputAudioContextRef = a,
            !.refs.outputAudioContextRef = a,
            !.dev.sock[a] = "connecting"]

\* Start button: enabled unless isRecording || isLoadingMedia; a click is flushed synchronously
StartConversation(limit) ==
  /\ ~rendered.isRecording
  /\ ~rendered.isLoadingMedia
  /\ \E a \in 1..limit :
       /\ initPc[a] = "idle"
       /\ \A b \in 1..(a-1) : initPc[b] # "idle"
       /\ LET w == Commit(InitializeAudioBegin(startConversation(World)))
          IN Becomes(w) /\ rendered' = Captured(w.state)
       /\ initPc' = [initPc EXCEPT ![a] = "mic"]
       /\ onCloseIsRecording' = [onCloseIsRecording EXCEPT ![a] = rendered.isRecording]
       /\ lastOp' = Op("start", Null)
  /\ heard' = EmptyHeard
  /\ playLog' = <<>>
  /\ stoppedMidAttempt' = FALSE
  /\ lastTurn' = NoTurn
  /\ UNCHANGED <<decoding, nMsgs>>

\* Stop button: enabled while isRecording || isLoadingMedia; a click is flushed synchronously
StopConversation ==
  /\ rendered.isRecording \/ rendered.isLoadingMedia
  /\ LET w == Commit(stopConversation(World))
     IN Becomes(w) /\ rendered' = Captured(w.state)
  /\ lastOp' = TeardownOp("stop", World)
  /\ heard' = EmptyHeard
  /\ playLog' = <<>>
  /\ stoppedMidAttempt' = \E a \in Attempts : Pending(a)
  /\ UNCHANGED <<initPc, onCloseIsRecording, decoding, nMsgs, lastTurn>>

\* getUserMedia resolves: streams and contexts are created and the connect is issued
MicGranted(a) ==
  /\ initPc[a] = "mic"
  /\ Becomes(InitializeAudioConnect(World, a))
  /\ initPc' = [initPc EXCEPT ![a] = "connect"]
  /\ lastOp' = Other
  /\ UNCHANGED <<rendered, onCloseIsRecording, decoding, nMsgs,
                 heard, lastTurn, playLog, stoppedMidAttempt>>

\* getUserMedia rejects: the catch block runs
MicDenied(a) ==
  /\ initPc[a] = "mic"
  /\ Becomes(InitializeAudioCatch(World))
  /\ initPc' = [initPc EXCEPT ![a] = "done"]
  /\ lastOp' = TeardownOp("micDenied", World)
  /\ heard' = EmptyHeard
  /\ playLog' = <<>>
  /\ UNCHANGED <<rendered, onCloseIsRecording, decoding, nMsgs,
                 lastTurn, stoppedMidAttempt>>

\* the socket opens: onopen runs onOpenCallback, the connect promise resolves and
\* initializeAudio stores the session
ConnectOpened(a) ==
  /\ initPc[a] = "connect"
  /\ dev.sock[a] = "connecting"
  /\ Becomes([onOpenCallback([World EXCEPT !.dev.sock[a] = "open",
                                           !.dev.processor[a] = TRUE])
                EXCEPT !.refs.liveSessionRef = a])
  /\ initPc' = [initPc EXCEPT ![a] = "done"]
  /\ lastOp' = Other
  /\ UNCHANGED <<rendered, onCloseIsRecording, decoding, nMsgs,
                 heard, lastTurn, playLog, stoppedMidAttempt>>

\* setupLiveSession rejects: the catch block runs
ConnectFailed(a) ==
  /\ initPc[a] = "connect"
  /\ Becomes(InitializeAudioCatch(
       [World EXCEPT !.dev.sock[a] = IF @ = "connecting" THEN "closed" ELSE @]))
  /\ initPc' = [initPc EXCEPT ![a] = "done"]
  /\ lastOp' = TeardownOp("connectFailed", World)
  /\ heard' = EmptyHeard
  /\ playLog' = <<>>
  /\ UNCHANGED <<rendered, onCloseIsRecording, decoding, nMsgs,
                 lastTurn, stoppedMidAttempt>>


\* error messages of the transport, told apart by the substrings handleApiError looks for:
\* the API's rejection of the key, a network failure, anything else
ErrorMessages == {"Requested entity was not found.", "Network error", "Unknown error"}

\* errorMsg.includes("Requested entity was not found.") || errorMsg.includes("Network error")
IsCredentialError(errorMsg) ==
  errorMsg \in {"Requested entity was not found.", "Network error"}

\* the user-facing messages that begin with 'API Key Error'
ApiKeyErrors == {"api_key_reselect", "api_key_unavailable", "api_key_dialog_failed"}

\* hasSelectKey: window.aistudio.openSelectKey exists when the error arrives
handleApiError(w, errorMsg, hasSelectKey) ==
  IF IsCredentialError(errorMsg)
    THEN LET w1 == [w EXCEPT !.state.error = "api_key_reselect"]
         IN IF hasSelectKey
              THEN [w1 EXCEPT !.dev.keyDialogs = @ + 1]
              ELSE stopConversation([w1 EXCEPT !.state.error = "api_key_unavailable"])
    ELSE stopConversation([w EXCEPT !.state.error = "conversation_error"])

\* the transport reports an error on attempt a's socket
OnError(a, errorMsg, hasSelectKey) ==
  /\ dev.sock[a] \in {"connecting", "open"}
  /\ hasSelectKey => dev.keyDialogs < MaxDialogs
  /\ Becomes(handleApiError(World, errorMsg, hasSelectKey))
  /\ lastOp' = TeardownOp("error", World)
  /\ heard' = EmptyHeard
  /\ playLog' = <<>>
  /\ UNCHANGED <<rendered, initPc, onCloseIsRecording, decoding, nMsgs,
                 lastTurn, stoppedMidAttempt>>

\* the rejection handler sets its error but leaves the session running
keyDialogSettled_RejectKeepsSession(w, resolved) ==
  LET w1 == [w EXCEPT !.dev.keyDialogs = @ - 1]
  IN IF resolved
       THEN stopConversation(w1)
       ELSE [w1 EXCEPT !.state.error = "api_key_dialog_failed"]

\* the .then / .catch handlers of openSelectKey()
keyDialogSettled(w, resolved) ==
  LET w1 == [w EXCEPT !.dev.keyDialogs = @ - 1]
  IN IF resolved
       THEN stopConversation(w1)
       ELSE stopConversation([w1 EXCEPT !.state.error = "api_key_dialog_failed"])

\* a key-selection dialog settles
KeyDialogSettled(resolved) ==
  /\ dev.keyDialogs > 0
  /\ Becomes(keyDialogSettled(World, resolved))
  /\ lastOp' = TeardownOp("keyDialog", World)
  /\ heard' = EmptyHeard
  /\ playLog' = <<>>
  /\ UNCHANGED <<rendered, initPc, onCloseIsRecording, decoding, nMsgs,
                 lastTurn, stoppedMidAttempt>>

\* after the teardown the close handler connects again
onCloseCallback_Reconnects(w, isRecording) ==
  LET w1 == stopConversation(w)
      free == {a \in Attempts : w.dev.sock[a] = "none"}
  IN IF free = {} THEN w1
     ELSE [w1 EXCEPT !.dev.sock[CHOOSE a \in free : TRUE] = "connecting"]

onCloseCallback(w, isRecording) ==
  stopConversation(IF isRecording THEN [w EXCEPT !.state.error = "closed_unexpectedly"] ELSE w)

\* the close callback holds isRecording = true
OnClose_CapturedRecording(a) ==
  /\ dev.sock[a] \in {"connecting", "open", "closing"}
  /\ Becomes(onCloseCallback([World EXCEPT !.dev.sock[a] = "closed"], TRUE))
  /\ lastOp' = TeardownOp("close", [World EXCEPT !.dev.sock[a] = "closed"])
  /\ heard' = EmptyHeard
  /\ playLog' = <<>>
  /\ UNCHANGED <<rendered, initPc, onCloseIsRecording, decoding, nMsgs,
                 lastTurn, stoppedMidAttempt>>

\* the socket of attempt a closes (after close(), a drop, or a failed connect)
OnClose(a) ==
  /\ dev.sock[a] \in {"connecting", "open", "closing"}
  /\ Becomes(onCloseCallback([World EXCEPT !.dev.sock[a] = "closed"], onCloseIsRecording[a]))
  /\ lastOp' = TeardownOp("close", [World EXCEPT !.dev.sock[a] = "closed"])
  /\ heard' = EmptyHeard
  /\ playLog' = <<>>
  /\ UNCHANGED <<rendered, initPc, onCloseIsRecording, decoding, nMsgs,
                 lastTurn, stoppedMidAttempt>>

HeardWith(m) == [input |-> heard.input \o m.input, output |-> heard.output \o m.output]

\* what a turn completion run in world w finalizes, next to what had been heard
TurnRecord(w, exp) ==
  [user |-> w.refs.currentInputTranscriptionRef,
   raw |-> w.refs.currentOutputTranscriptionRef,
   ai |-> parseFeedback(w.refs.currentOutputTranscriptionRef).conversationalText,
   expUser |-> exp.input, expAi |-> parseFeedback(exp.output).conversationalText]

\* onmessage after the audio branch: the interrupted branch, then callbacks.onMessage
AfterAudio(w, m) == onMessageLogic(IF m.interrupted THEN Interrupt(w) ELSE w, m)

\* an inbound message is delivered to onmessage: without audio the handler runs to its
\* end, with audio it clamps nextStartTime and suspends at `await decodeAudioData`
Deliver(a, m) ==
  /\ dev.sock[a] = "open"
  /\ nMsgs' = nMsgs + 1
  /\ heard' = IF m.turnComplete THEN EmptyHeard ELSE HeardWith(m)
  /\ IF m.audio # 0
       THEN /\ Becomes([World EXCEPT
                          !.refs.nextStartTimeRef = ClampToClock(@, dev.clock[a])])
            /\ decoding' = decoding \cup
                 {[id |-> nMsgs + 1, att |-> a, msg |-> m, exp |-> HeardWith(m)]}
            /\ lastOp' = Other
            /\ UNCHANGED <<lastTurn, playLog>>
       ELSE /\ Becomes(AfterAudio(World, m))
            /\ lastTurn' = IF m.turnComplete THEN TurnRecord(World, HeardWith(m))
                                             ELSE lastTurn
            /\ playLog' = IF m.interrupted THEN <<>> ELSE playLog
            /\ lastOp' = IF m.interrupted
                           THEN [Op("interrupt", a) EXCEPT
                                   !.cleared = refs.audioSourceNodesRef # {}]
                           ELSE Other
            /\ UNCHANGED decoding
  /\ UNCHANGED <<rendered, initPc, onCloseIsRecording, stoppedMidAttempt>>

\* an inbound message with audio or an interruption
OnMessage(a, m) == nMsgs < MaxMsgs /\ Deliver(a, m)

\* an inbound message with transcription deltas or a turn completion
OnTextMessage(a, m) == nMsgs < MaxTextMsgs /\ Deliver(a, m)

\* the end-to-end scenario: two input deltas, one output delta, the turn completion
Script ==
  << [Blank EXCEPT !.input = <<"Hola">>],
     [Blank EXCEPT !.input = <<" amigo">>],
     [Blank EXCEPT !.output = <<"Hello friend">>],
     [Blank EXCEPT !.turnComplete = TRUE] >>

\* the next message of the scenario is delivered
ScriptedMessage(a) == nMsgs < Len(Script) /\ Deliver(a, Script[nMsgs + 1])

\* ------------------------------------------ on-demand pronunciation playback
\* playPronunciationExample up to its first await; playingAudioKey is the value its
\* closure captured
playPronunciationExample(w, r, playingAudioKey) ==
  IF w.refs.outputAudioContextRef = Null \/ playingAudioKey # Null
    THEN w
    ELSE LET w1 == [w EXCEPT !.state.playingAudioKey = r]
             w2 == IF w1.refs.currentPronunciationSource # Null
                     THEN StopPronunciationSource(w1, w1.refs.currentPronunciationSource)
                     ELSE w1
         IN [w2 EXCEPT !.dev.pron[r] = "synth"]

\* the catch block also tears the session down
pronunciationCatch_TearsDown(w, r) ==
  stopConversation([w EXCEPT !.state.error = "pronunciation_error",
                             !.dev.pron[r] = "done"])

\* the catch block of playPronunciationExample
pronunciationCatch(w, r) ==
  [w EXCEPT !.state.error = "pronunciation_error",
            !.state.playingAudioKey = Null,
            !.dev.pron[r] = "done"]

\* generateSpeechForText resolved: decodeAudioData is called with outputAudioContextRef.current,
\* which throws on a null context
speechGenerated(w, r) ==
  IF w.refs.outputAudioContextRef = Null
    THEN pronunciationCatch(w, r)
    ELSE [w EXCEPT !.dev.pron[r] = "decode"]

\* decodeAudioData resolved: the source is created on outputAudioContextRef.current
\* (a throw on null), started, and stored in currentPronunciationSource
speechDecoded(w, r) ==
  IF w.refs.outputAudioContextRef = Null
    THEN pronunciationCatch(w, r)
    ELSE [w EXCEPT !.dev.pron[r] = "playing",
                   !.refs.currentPronunciationSource = r]

\* the onended handler releases the source handle and leaves the marker alone
pronunciationEnded_KeepsMarker(w, r) ==
  [w EXCEPT !.refs.currentPronunciationSource = Null,
            !.dev.pron[r] = "done"]

\* source.onended of request r
pronunciationEnded(w, r) ==
  [w EXCEPT !.state.playingAudioKey = Null,
            !.refs.currentPronunciationSource = Null,
            !.dev.pron[r] = "done"]

\* a pronunciation button is rendered for every transcript turn that carries feedback
HasPronunciationButton(st) ==
  \E i \in 1..Len(st.conversation) : st.conversation[i].feedback # NoFeedback

\* a press of a pronunciation button: the r-th one; a disabled button swallows it
PlayPronunciationExample(r) ==
  /\ HasPronunciationButton(state)
  /\ dev.pron[r] = "idle"
  /\ \A q \in 1..(r-1) : dev.pron[q] # "idle"
  /\ LET w == Commit(playPronunciationExample(World, r, rendered.playingAudioKey))
     IN /\ Becomes(w)
        /\ rendered' = Captured(w.state)
        /\ lastOp' = Op(IF w.dev.pron[r] = "synth" THEN "pronRequest" ELSE "pronIgnored", r)
  /\ UNCHANGED <<initPc, onCloseIsRecording, decoding, nMsgs, heard, lastTurn, playLog,
                 stoppedMidAttempt>>

\* the rest of the handler of request r runs from world w to the next await or its end
PronunciationStep(r, w, op) ==
  /\ Becomes(w)
  /\ lastOp' = op
  /\ UNCHANGED <<rendered, initPc, onCloseIsRecording, decoding, nMsgs, heard, lastTurn,
                 playLog, stoppedMidAttempt>>

SpeechGenerated(r) == dev.pron[r] = "synth" /\ PronunciationStep(r, speechGenerated(World, r), Other)

\* generateSpeechForText rejects (request failure, or no audio in the response)
SpeechFailed(r) ==
  dev.pron[r] = "synth" /\ PronunciationStep(r, pronunciationCatch(World, r), Op("speechFailed", r))

SpeechDecoded(r) == dev.pron[r] = "decode" /\ PronunciationStep(r, speechDecoded(World, r), Other)

\* decodeAudioData rejects, or source.start throws
SpeechDecodeFailed(r) ==
  /\ dev.pron[r] = "decode"
  /\ PronunciationStep(r, pronunciationCatch(World, r), Op("speechDecodeFailed", r))

\* the 'ended' event of the source of request r: its audio ran out or stop() was called
PronunciationEnded(r) ==
  /\ dev.pron[r] \in {"playing", "stopped"}
  /\ PronunciationStep(r, pronunciationEnded(World, r), Other)

\* a reply with a feedback block and its turn completion, over and over
FeedbackScript ==
  << [Blank EXCEPT !.output = FeedbackReply], [Blank EXCEPT !.turnComplete = TRUE] >>

FeedbackMessage(a) ==
  nMsgs < MaxFeedbackMsgs /\ Deliver(a, FeedbackScript[(nMsgs % 2) + 1])

\* session.sendRealtimeInput on the session of attempt a: the frame goes out on an open
\* socket and is discarded without an error on any other
sendRealtimeInput(w, a, k) ==
  IF w.dev.sock[a] = "open" THEN [w EXCEPT !.dev.frames[a] = Append(@, k)] ELSE w

\* the handler sends the block twice
onaudioprocess_SendsTwice(w, a) ==
  LET k == Len(w.dev.blocks[a]) + 1
      w1 == [w EXCEPT !.dev.blocks[a] = Append(@, w.dev.sock[a] = "open")]
  IN sendRealtimeInput(sendRealtimeInput(w1, a, k), a, k)

\* scriptProcessor.onaudioprocess of attempt a: the block is framed and handed to the
\* session of the same setupLiveSession call (the connect promise has resolved)
onaudioprocess(w, a) ==
  LET k == Len(w.dev.blocks[a]) + 1
      w1 == [w EXCEPT !.dev.blocks[a] = Append(@, w.dev.sock[a] = "open")]
  IN sendRealtimeInput(w1, a, k)

\* the processor of attempt a gets a microphone block. AudioContext.close() takes effect
\* asynchronously, so an audioprocess event may still be dispatched after the teardown
\* has closed the context: a connected processor may fire in either context state
MicBlock(a) ==
  /\ dev.processor[a]
  /\ dev.inCtx[a] \in {"running", "closed"}
  /\ Cardinality({<<b, i>> \in Attempts \X (1..MaxBlocks) : i <= Len(dev.blocks[b])})
       < MaxBlocks
  /\ Becomes(onaudioprocess(World, a))
  /\ lastOp' = Op("block", a)
  /\ UNCHANGED <<rendered, initPc, onCloseIsRecording, decoding, nMsgs, heard, lastTurn,
                 playLog, stoppedMidAttempt>>

\* the output transcription of one AI turn arrives in one message
ParseReply(a, t) == nMsgs = 0 /\ Deliver(a, [Blank EXCEPT !.output = t])

\* the turn completion that follows it
ParseTurnComplete(a) == nMsgs = 1 /\ Deliver(a, [Blank EXCEPT !.turnComplete = TRUE])

\* the suspended onmessage invocation of message id
Handler(id) == CHOOSE h \in decoding : h.id = id

\* a decode settles: the suspended handler starts the source and runs to its end
DecodeDone(id) ==
  /\ \E h \in decoding : h.id = id
  /\ LET h == Handler(id)
     IN /\ decoding' = decoding \ {h}
        /\ Becomes(AfterAudio(ScheduleChunk(World, h), h.msg))
        /\ lastTurn' = IF h.msg.turnComplete THEN TurnRecord(World, h.exp) ELSE lastTurn
        /\ playLog' =
             IF h.msg.interrupted
               THEN <<>>
               ELSE LogChunk(playLog, [id |-> h.id, at |-> refs.nextStartTimeRef,
                                       dur |-> h.msg.audio, now |-> dev.clock[h.att]])
        /\ lastOp' =
             IF h.msg.interrupted
               THEN [Op("interrupt", h.att) EXCEPT !.cleared = TRUE]
               ELSE Op("chunk", Null)
  /\ UNCHANGED <<rendered, initPc, onCloseIsRecording, nMsgs, heard, stoppedMidAttempt>>

\* a decode rejects: the handler's promise rejects and the rest of the handler is skipped
DecodeFailed(id) ==
  /\ \E h \in decoding : h.id = id
  /\ decoding' = decoding \ {Handler(id)}
  /\ lastOp' = Other
  /\ UNCHANGED <<state, rendered, refs, dev, initPc, onCloseIsRecording, nMsgs, heard,
                 lastTurn, playLog, stoppedMidAttempt>>

\* the 'ended' listener leaves the source in the set
SourceEnded_KeepsHandle(id) ==
  /\ \E n \in refs.audioSourceNodesRef :
       /\ n.id = id
       /\ dev.clock[n.att] >= n.at + n.dur
       /\ refs' = refs
       /\ lastOp' = Op("ended", Null)
  /\ UNCHANGED <<state, rendered, dev, initPc, onCloseIsRecording, decoding, nMsgs, heard,
                 lastTurn, playLog, stoppedMidAttempt>>

\* a started source plays to its end: its 'ended' listener deletes it from the set
SourceEnded(id) ==
  /\ \E n \in refs.audioSourceNodesRef :
       /\ n.id = id
       /\ dev.clock[n.att] >= n.at + n.dur
       /\ refs' = [refs EXCEPT !.audioSourceNodesRef = @ \ {n}]
       /\ lastOp' = Other
  /\ UNCHANGED <<state, rendered, dev, initPc, onCloseIsRecording, decoding, nMsgs, heard,
                 lastTurn, playLog, stoppedMidAttempt>>

\* the output clock of a running context advances
Tick(a) ==
  /\ dev.outCtx[a] = "running"
  /\ dev.clock[a] < MaxClock
  /\ dev' = [dev EXCEPT !.clock[a] = @ + 1]
  /\ lastOp' = Other
  /\ UNCHANGED <<state, rendered, refs, initPc, onCloseIsRecording, decoding, nMsgs, heard,
                 lastTurn, playLog, stoppedMidAttempt>>

\* React commits the queued updates and runs the ref-sync effects
Render ==
  /\ \/ rendered # Captured(state)
     \/ Commit(World).refs # refs
  /\ Becomes(Commit(World))
  /\ rendered' = Captured(state)
  /\ lastOp' = Other
  /\ UNCHANGED <<initPc, onCloseIsRecording, decoding, nMsgs,
                 heard, lastTurn, playLog, stoppedMidAttempt>>

\* --------------------------------------- translation practice (SpanishTranslator)
\* The component repeats VoiceChat's session handling and adds the turn stage.
translatorStopConversation(w) ==
  [stopConversation(w) EXCEPT !.state.currentTurnStage = "spanish_input"]

translatorOnOpenCallback(w) ==
  [onOpenCallback(w) EXCEPT !.state.currentTurnStage = "spanish_input"]

StageLabel(stage) == IF stage = "spanish_input" THEN "(Español)" ELSE "(English Attempt)"

\* the marker that opens a pronunciation tip, one token
pronunciationTipMarker == "Pronunciation Tip:"

\* the value of an optional text field that was not set; no text has this token
Undefined == <<"undefined">>

\* text.match(/\*\*(.*?)\*\*/): the leftmost "**" that has a closing "**" on the same
\* line, and the nearest such closing one; the capture is what lies between them
BoldMatch(text) ==
  LET closes(i) == {j \in (i+1)..Len(text) :
                      /\ text[j] = "**"
                      /\ \A k \in (i+1)..(j-1) : text[k] # "\n"}
      opens == {i \in 1..Len(text) : text[i] = "**" /\ closes(i) # {}}
  IN IF opens = {} THEN [found |-> FALSE, value |-> NoText]
     ELSE LET i == CHOOSE o \in opens : \A q \in opens : o <= q
              j == CHOOSE c \in closes(i) : \A q \in closes(i) : c <= q
          IN [found |-> TRUE, value |-> SubSeq(text, i + 1, j - 1)]

\* SpanishTranslator's parseFeedback: with the tip marker the bold span is looked for in
\* the text from the marker on, without it in the whole text
translatorParseFeedback(aiResponseText) ==
  LET startIndex == IndexOf(aiResponseText, pronunciationTipMarker)
  IN IF startIndex # 0
       THEN LET feedbackText == Trim(SubSeq(aiResponseText, startIndex,
                                            Len(aiResponseText)))
                pronunciationMatch == BoldMatch(feedbackText)
            IN [conversationalText |-> Trim(SubSeq(aiResponseText, 1, startIndex - 1)),
                feedback |->
                  [text |-> feedbackText,
                   type |-> "pronunciation",
                   pronunciationExampleText |->
                     IF pronunciationMatch.found THEN pronunciationMatch.value
                                                 ELSE Undefined]]
       ELSE LET pronunciationMatch == BoldMatch(aiResponseText)
            IN [conversationalText |-> aiResponseText,
                feedback |->
                  IF pronunciationMatch.found
                    THEN [text |-> NoText,
                          type |-> "general",
                          pronunciationExampleText |-> pronunciationMatch.value]
                    ELSE NoFeedback]

\* the three feedback fields of the AI entry are kept as the parser's feedback value
translatorOnMessageLogic(w, m) ==
  LET w1 == [w EXCEPT !.state.currentOutputTranscription = @ \o m.output,
                      !.state.currentInputTranscription = @ \o m.input]
      currentTurn == w.refs.currentTurnStageRef
      latestInput == w.refs.currentInputTranscriptionRef
      latestOutput == w.refs.currentOutputTranscriptionRef
      newMessages ==
        (IF latestInput # NoText
           THEN <<[role |-> "user", text |-> <<StageLabel(currentTurn)>> \o latestInput,
                   feedback |-> NoFeedback]>>
           ELSE <<>>)
        \o (IF latestOutput # NoText
              THEN <<[role |-> "ai",
                      text |-> translatorParseFeedback(latestOutput).conversationalText,
                      feedback |-> translatorParseFeedback(latestOutput).feedback]>>
              ELSE <<>>)
  IN IF m.turnComplete
       THEN [w1 EXCEPT !.state.conversation = @ \o newMessages,
                       !.state.currentTurnStage =
                          IF currentTurn = "spanish_input"
                            THEN "english_pronunciation" ELSE "spanish_input",
                       !.state.currentInputTranscription = NoText,
                       !.state.currentOutputTranscription = NoText]
       ELSE w1

\* the ref-sync effects, with the one of currentTurnStageRef
translatorCommit(w) ==
  [Commit(w) EXCEPT !.refs.currentTurnStageRef = w.state.currentTurnStage]

\* the turn completion just processed: its number since the open and the stage it read
StageRecord(w) ==
  [k |-> IF lastTurn = NoTurn THEN 1 ELSE lastTurn.k + 1,
   stage |-> w.refs.currentTurnStageRef]

TranslatorMessages ==
  {[Blank EXCEPT !.input = t] : t \in InputDeltas} \cup {[Blank EXCEPT !.turnComplete = TRUE]}

TranslatorStart ==
  /\ ~rendered.isRecording
  /\ ~rendered.isLoadingMedia
  /\ \E a \in 1..MaxPlaybackAttempts :
       /\ initPc[a] = "idle"
       /\ \A b \in 1..(a-1) : initPc[b] # "idle"
       /\ LET w == translatorCommit(InitializeAudioBegin(startConversation(World)))
          IN Becomes(w) /\ rendered' = Captured(w.state)
       /\ initPc' = [initPc EXCEPT ![a] = "mic"]
  /\ lastOp' = Op("start", Null)
  /\ lastTurn' = NoTurn
  /\ UNCHANGED <<onCloseIsRecording, decoding, nMsgs, heard, playLog, stoppedMidAttempt>>

TranslatorStop ==
  /\ rendered.isRecording \/ rendered.isLoadingMedia
  /\ LET w == translatorCommit(translatorStopConversation(World))
     IN Becomes(w) /\ rendered' = Captured(w.state)
  /\ lastOp' = TeardownOp("stop", World)
  /\ UNCHANGED <<initPc, onCloseIsRecording, decoding, nMsgs, heard, lastTurn, playLog,
                 stoppedMidAttempt>>

TranslatorOpened(a) ==
  /\ initPc[a] = "connect"
  /\ dev.sock[a] = "connecting"
  /\ Becomes([translatorOnOpenCallback([World EXCEPT !.dev.sock[a] = "open"])
                EXCEPT !.refs.liveSessionRef = a])
  /\ initPc' = [initPc EXCEPT ![a] = "done"]
  /\ lastOp' = Op("open", a)
  /\ lastTurn' = NoTurn
  /\ UNCHANGED <<rendered, onCloseIsRecording, decoding, nMsgs, heard, playLog,
                 stoppedMidAttempt>>

TranslatorClose(a) ==
  /\ dev.sock[a] \in {"connecting", "open", "closing"}
  /\ Becomes(translatorStopConversation([World EXCEPT !.dev.sock[a] = "closed"]))
  /\ lastOp' = TeardownOp("close", [World EXCEPT !.dev.sock[a] = "closed"])
  /\ UNCHANGED <<rendered, initPc, onCloseIsRecording, decoding, nMsgs, heard, lastTurn,
                 playLog, stoppedMidAttempt>>

TranslatorMessage(a, m) ==
  /\ dev.sock[a] = "open"
  /\ nMsgs < MaxTextMsgs
  /\ nMsgs' = nMsgs + 1
  /\ Becomes(translatorOnMessageLogic(World, m))
  /\ lastTurn' = IF m.turnComplete THEN StageRecord(World) ELSE lastTurn
  /\ lastOp' = Other
  /\ UNCHANGED <<rendered, initPc, onCloseIsRecording, decoding, heard, playLog,
                 stoppedMidAttempt>>

TranslatorRender ==
  /\ \/ rendered # Captured(state)
     \/ translatorCommit(World).refs # refs
  /\ Becomes(translatorCommit(World))
  /\ rendered' = Captured(state)
  /\ lastOp' = Other
  /\ UNCHANGED <<initPc, onCloseIsRecording, decoding, nMsgs,
                 heard, lastTurn, playLog, stoppedMidAttempt>>

\* AI texts of a translation-practice turn
TipWithBold ==
  <<"Bien", " ", pronunciationTipMarker, " ", "stress", " ", "**", "world", "**">>
BoldBeforeTip ==
  <<"Great", " ", "**", "job", "**", " ", pronunciationTipMarker, " ",
    "**", "world", "**">>
BoldOnlyBeforeTip ==
  <<"Great", " ", "**", "job", "**", " ", pronunciationTipMarker, " ", "stress">>
TipNoBold == <<"Bien", " ", pronunciationTipMarker, " ", "stress">>
TwoBoldNoTip == <<"Say", " ", "**", "hello", "**", " ", "**", "world", "**">>
UnclosedBold == <<"Say", " ", "**", "hello">>
PlainReply == <<"Hello friend">>

TipTexts ==
  {TipWithBold, BoldBeforeTip, BoldOnlyBeforeTip, TipNoBold, TwoBoldNoTip, UnclosedBold,
   PlainReply}

\* the output transcription of one AI turn arrives in one message
TranslatorReply(a, t) == nMsgs = 0 /\ TranslatorMessage(a, [Blank EXCEPT !.output = t])

\* the turn completion that follows it
TranslatorTurnComplete(a) ==
  nMsgs = 1 /\ TranslatorMessage(a, [Blank EXCEPT !.turnComplete = TRUE])

NextTranslator ==
  \/ TranslatorStart
  \/ TranslatorStop
  \/ \E a \in Attempts : MicGranted(a)
  \/ \E a \in Attempts : TranslatorOpened(a)
  \/ \E a \in Attempts : TranslatorClose(a)
  \/ \E a \in Attempts, m \in TranslatorMessages : TranslatorMessage(a, m)
  \/ TranslatorRender

\* session lifecycle: start, stop, the settling of the pending operations, transport events
NextSession ==
  \/ StartConversation(MaxAttempts)
  \/ StopConversation
  \/ \E a \in Attempts : MicGranted(a)
  \/ \E a \in Attempts : MicDenied(a)
  \/ \E a \in Attempts : ConnectOpened(a)
  \/ \E a \in Attempts : ConnectFailed(a)
  \/ \E a \in Attempts, errorMsg \in ErrorMessages : OnError(a, errorMsg, FALSE)
  \/ \E a \in Attempts : OnClose(a)
  \/ Render

\* a session that gets established, its inbound audio and its teardown by Stop or close
NextPlayback ==
  \/ StartConversation(MaxPlaybackAttempts)
  \/ StopConversation
  \/ \E a \in Attempts : MicGranted(a)
  \/ \E a \in Attempts : ConnectOpened(a)
  \/ \E a \in Attempts : OnClose(a)
  \/ Render
  \/ \E a \in Attempts, m \in AudioMessages : OnMessage(a, m)
  \/ \E id \in 1..MaxMsgs : DecodeDone(id)
  \/ \E id \in 1..MaxMsgs : DecodeFailed(id)
  \/ \E id \in 1..MaxMsgs : SourceEnded(id)
  \/ \E a \in Attempts : Tick(a)

\* the lifecycle with inbound transcription deltas and turn completions
NextTranscript ==
  \/ StartConversation(MaxAttempts)
  \/ StopConversation
  \/ \E a \in Attempts : MicGranted(a)
  \/ \E a \in Attempts : ConnectOpened(a)
  \/ \E a \in Attempts : OnError(a, "Unknown error", FALSE)
  \/ \E a \in Attempts : OnClose(a)
  \/ Render
  \/ \E a \in Attempts, m \in TextMessages : OnTextMessage(a, m)

\* one session that receives the messages of the end-to-end scenario, renders in between
NextEndToEnd ==
  \/ StartConversation(MaxPlaybackAttempts)
  \/ StopConversation
  \/ \E a \in Attempts : MicGranted(a)
  \/ \E a \in Attempts : ConnectOpened(a)
  \/ \E a \in Attempts : OnClose(a)
  \/ Render
  \/ \E a \in Attempts : ScriptedMessage(a)

\* sessions whose transcript gets feedback turns, and the pronunciation playback
NextPronunciation ==
  \/ StartConversation(MaxAttempts)
  \/ StopConversation
  \/ \E a \in Attempts : MicGranted(a)
  \/ \E a \in Attempts : ConnectOpened(a)
  \/ \E a \in Attempts : OnClose(a)
  \/ Render
  \/ \E a \in Attempts : FeedbackMessage(a)
  \/ \E r \in Requests : PlayPronunciationExample(r)
  \/ \E r \in Requests : SpeechGenerated(r)
  \/ \E r \in Requests : SpeechFailed(r)
  \/ \E r \in Requests : SpeechDecoded(r)
  \/ \E r \in Requests : SpeechDecodeFailed(r)
  \/ \E r \in Requests : PronunciationEnded(r)

\* the first two replies with a feedback block and their turn completions: a turn that
\* puts a pronunciation button on the transcript, and another after a restart has
\* emptied the transcript
FirstFeedbackTurns(a) == nMsgs < 2 * Len(FeedbackScript) /\ FeedbackMessage(a)

\* sessions with up to two feedback turns, and the pronunciation playback
NextPronunciationFair ==
  \/ StartConversation(MaxAttempts)
  \/ StopConversation
  \/ \E a \in Attempts : MicGranted(a)
  \/ \E a \in Attempts : ConnectOpened(a)
  \/ \E a \in Attempts : OnClose(a)
  \/ Render
  \/ \E a \in Attempts : FirstFeedbackTurns(a)
  \/ \E r \in Requests : PlayPronunciationExample(r)
  \/ \E r \in Requests : SpeechGenerated(r)
  \/ \E r \in Requests : SpeechFailed(r)
  \/ \E r \in Requests : SpeechDecoded(r)
  \/ \E r \in Requests : SpeechDecodeFailed(r)
  \/ \E r \in Requests : PronunciationEnded(r)

\* inbound messages that carry audio or an interruption next to transcript content
ForwardMessages ==
  {[Blank EXCEPT !.audio = MaxDur, !.output = <<"Hello friend">>],
   [Blank EXCEPT !.audio = MaxDur, !.interrupted = TRUE, !.input = <<"Hola">>],
   [Blank EXCEPT !.interrupted = TRUE, !.output = <<"Hello friend">>],
   [Blank EXCEPT !.audio = MaxDur, !.turnComplete = TRUE],
   [Blank EXCEPT !.input = <<"Hola">>]}

\* one of them arrives
ForwardMessage(a, m) == OnMessage(a, m)

\* one session whose inbound messages mix audio, interruptions and transcript content
NextForward ==
  \/ StartConversation(MaxPlaybackAttempts)
  \/ StopConversation
  \/ \E a \in Attempts : MicGranted(a)
  \/ \E a \in Attempts : ConnectOpened(a)
  \/ \E a \in Attempts : OnClose(a)
  \/ Render
  \/ \E a \in Attempts, m \in ForwardMessages : ForwardMessage(a, m)
  \/ \E id \in 1..MaxMsgs : DecodeDone(id)
  \/ \E id \in 1..MaxMsgs : DecodeFailed(id)
  \/ \E id \in 1..MaxMsgs : SourceEnded(id)
  \/ \E a \in Attempts : Tick(a)

\* the view is unmounted: the cleanup of the unmount effect runs stopConversation; no
\* render follows
Unmount ==
  /\ ~dev.unmounted
  /\ Becomes([stopConversation(World) EXCEPT !.dev.unmounted = TRUE])
  /\ lastOp' = TeardownOp("unmount", World)
  /\ heard' = EmptyHeard
  /\ playLog' = <<>>
  /\ UNCHANGED <<rendered, initPc, onCloseIsRecording, decoding, nMsgs, lastTurn,
                 stoppedMidAttempt>>

\* the buttons and the renders of a view that is mounted
ViewStart == ~dev.unmounted /\ StartConversation(MaxAttempts)
ViewStop == ~dev.unmounted /\ StopConversation
ViewRender == ~dev.unmounted /\ Render

\* the lifecycle of a view that may be unmounted at any moment
NextUnmount ==
  \/ ViewStart
  \/ ViewStop
  \/ ViewRender
  \/ Unmount
  \/ \E a \in Attempts : MicGranted(a)
  \/ \E a \in Attempts : MicDenied(a)
  \/ \E a \in Attempts : ConnectOpened(a)
  \/ \E a \in Attempts : ConnectFailed(a)
  \/ \E a \in Attempts : OnError(a, "Unknown error", FALSE)
  \/ \E a \in Attempts : OnClose(a)

\* the barge-in scenario: a chunk arrives, then an interruption, then a chunk of the
\* model's next utterance
RaceScript ==
  << [Blank EXCEPT !.audio = MaxDur],
     [Blank EXCEPT !.interrupted = TRUE],
     [Blank EXCEPT !.audio = MaxDur] >>

\* the next message of the barge-in scenario is delivered
RaceMessage(a) == nMsgs < Len(RaceScript) /\ Deliver(a, RaceScript[nMsgs + 1])

\* one session that receives the barge-in scenario under every timing of the decodes
NextInterruptRace ==
  \/ StartConversation(MaxPlaybackAttempts)
  \/ StopConversation
  \/ \E a \in Attempts : MicGranted(a)
  \/ \E a \in Attempts : ConnectOpened(a)
  \/ \E a \in Attempts : OnClose(a)
  \/ Render
  \/ \E a \in Attempts : RaceMessage(a)
  \/ \E id \in 1..Len(RaceScript) : DecodeDone(id)
  \/ \E id \in 1..Len(RaceScript) : DecodeFailed(id)
  \/ \E id \in 1..Len(RaceScript) : SourceEnded(id)
  \/ \E a \in Attempts : Tick(a)

\* the lifecycle with the microphone blocks that the script processors deliver
NextFrames ==
  \/ StartConversation(MaxAttempts)
  \/ StopConversation
  \/ \E a \in Attempts : MicGranted(a)
  \/ \E a \in Attempts : ConnectOpened(a)
  \/ \E a \in Attempts : OnError(a, "Unknown error", FALSE)
  \/ \E a \in Attempts : OnClose(a)
  \/ Render
  \/ \E a \in Attempts : MicBlock(a)

\* a translation-practice session whose AI turn is one of the tip texts
NextTranslatorParse ==
  \/ TranslatorStart
  \/ TranslatorStop
  \/ \E a \in Attempts : MicGranted(a)
  \/ \E a \in Attempts : TranslatorOpened(a)
  \/ \E a \in Attempts : TranslatorClose(a)
  \/ \E a \in Attempts, t \in TipTexts : TranslatorReply(a, t)
  \/ \E a \in Attempts : TranslatorTurnComplete(a)
  \/ TranslatorRender

\* one session whose AI turn is one of the texts the parser is exercised on
NextParse ==
  \/ StartConversation(MaxPlaybackAttempts)
  \/ StopConversation
  \/ \E a \in Attempts : MicGranted(a)
  \/ \E a \in Attempts : ConnectOpened(a)
  \/ \E a \in Attempts : OnClose(a)
  \/ Render
  \/ \E a \in Attempts, t \in ParseTexts : ParseReply(a, t)
  \/ \E a \in Attempts : ParseTurnComplete(a)

\* the lifecycle, with the errors that arrive where a key-selection capability exists
\* --------------------------------------- text chat and grammar check (TextChat)
\* App renders <TextChat mode="text_chat"/> and <TextChat mode="grammar_check"/> in
\* separate slots, so each mode has an instance of its own with fresh state.
TextRequests == 1..MaxSends
TextModes == {"text_chat", "grammar_check"}
Chat == 1

\* what the user leaves in the textarea, what a stream chunk and a correction carry, and
\* the message of a rejection
TextInputs == {<<"Hi">>, <<" ">>, <<" ", "Ok">>}
ChunkTexts == {<<"Sure">>}
Corrections == {<<"Fixed">>}
TextErrorMessages == {"Network error", "Quota exceeded"}

TextMessage(role, text, thinking) == [role |-> role, text |-> text, isThinking |-> thinking]

Greeting(mode) == IF mode = "text_chat" THEN <<"Hello!">> ELSE <<"Paste">>

\* the mount effect: createTextChat may throw, and then neither the chat nor the greeting
\* is there
mountTextChat(w, mode, created) ==
  IF created
    THEN [w EXCEPT !.dev.textMode = mode,
                   !.refs.chatRef = Chat,
                   !.state.textMessages = <<TextMessage("ai", Greeting(mode), FALSE)>>,
                   !.state.textError = "none"]
    ELSE [w EXCEPT !.dev.textMode = mode,
                   !.state.textError = "failed_to_start"]

\* the backwards scan for the last AI entry that is marked isThinking: its index, 0 if none
LastThinking(msgs) ==
  LET s == {k \in 1..Len(msgs) : msgs[k].role = "ai" /\ msgs[k].isThinking}
  IN IF s = {} THEN 0 ELSE CHOOSE k \in s : \A j \in s : j <= k

\* Array.prototype.splice(k, 1)
RemoveAt(msgs, k) == SubSeq(msgs, 1, k - 1) \o SubSeq(msgs, k + 1, Len(msgs))

\* the handler sends whatever isLoading says
handleSendMessage_IgnoresLoading(w, input, isLoading, i) ==
  IF Trim(input) = NoText
    THEN w
    ELSE LET w1 == [w EXCEPT !.state.textMessages =
                               Append(@, TextMessage("user", Trim(input), FALSE)),
                             !.state.textInput = NoText,
                             !.state.textIsLoading = TRUE,
                             !.state.textError = "none"]
         IN IF w.dev.textMode = "text_chat" /\ w.refs.chatRef # Null
              THEN [w1 EXCEPT !.state.textMessages =
                                Append(@, TextMessage("ai", NoText, TRUE)),
                              !.dev.textRequests[i].pc = "pending"]
            ELSE IF w.dev.textMode = "grammar_check"
              THEN [w1 EXCEPT !.state.textMessages =
                                Append(@, TextMessage("ai", <<"Checking grammar...">>, TRUE)),
                              !.dev.textRequests[i].pc = "pending"]
            ELSE [w1 EXCEPT !.state.textIsLoading = FALSE,
                            !.dev.textRequests[i].pc = "done"]

\* handleSendMessage up to its first await (or to its end when no call is made); input and
\* isLoading are the values its closure captured, i is the request it would start
handleSendMessage(w, input, isLoading, i) ==
  IF Trim(input) = NoText \/ isLoading
    THEN w
    ELSE LET w1 == [w EXCEPT !.state.textMessages =
                               Append(@, TextMessage("user", Trim(input), FALSE)),
                             !.state.textInput = NoText,
                             !.state.textIsLoading = TRUE,
                             !.state.textError = "none"]
         IN IF w.dev.textMode = "text_chat" /\ w.refs.chatRef # Null
              THEN [w1 EXCEPT !.state.textMessages =
                                Append(@, TextMessage("ai", NoText, TRUE)),
                              !.dev.textRequests[i].pc = "pending"]
            ELSE IF w.dev.textMode = "grammar_check"
              THEN [w1 EXCEPT !.state.textMessages =
                                Append(@, TextMessage("ai", <<"Checking grammar...">>, TRUE)),
                              !.dev.textRequests[i].pc = "pending"]
            ELSE [w1 EXCEPT !.state.textIsLoading = FALSE,
                            !.dev.textRequests[i].pc = "done"]

\* one chunk of the stream of request i: the text so far goes into the thinking entry
streamChunk(w, i, chunk) ==
  LET full == w.dev.textRequests[i].full \o chunk
      k == LastThinking(w.state.textMessages)
      w1 == [w EXCEPT !.dev.textRequests[i] = [pc |-> "streaming", full |-> full]]
  IN IF k > 0 THEN [w1 EXCEPT !.state.textMessages[k].text = full] ELSE w1

\* the stream of request i is exhausted: the thinking entry gets the full text and loses
\* the mark; then the finally block
streamEnded(w, i) ==
  LET full == w.dev.textRequests[i].full
      k == LastThinking(w.state.textMessages)
      w1 == [w EXCEPT !.dev.textRequests[i].pc = "done",
                      !.state.textIsLoading = FALSE]
  IN IF k > 0
       THEN [w1 EXCEPT !.state.textMessages[k].text = full,
                       !.state.textMessages[k].isThinking = FALSE]
       ELSE w1

\* checkGrammarAndCorrect resolved: the thinking entry is replaced by the correction, or
\* the correction is appended when there is none; then the finally block
grammarChecked(w, i, correction) ==
  LET k == LastThinking(w.state.textMessages)
      reply == TextMessage("ai", correction, FALSE)
      w1 == [w EXCEPT !.dev.textRequests[i].pc = "done",
                      !.state.textIsLoading = FALSE]
  IN IF k > 0
       THEN [w1 EXCEPT !.state.textMessages[k] = reply]
       ELSE [w1 EXCEPT !.state.textMessages = Append(@, reply)]

\* the catch block: the error is shown and the thinking entry removed; then the finally
\* block
textRequestFailed(w, i, errorMsg) ==
  LET k == LastThinking(w.state.textMessages)
      displayError == IF IsCredentialError(errorMsg)
                        THEN "api_key_error"
                        ELSE "failed_to_get_response"
      w1 == [w EXCEPT !.dev.textRequests[i].pc = "done",
                      !.state.textIsLoading = FALSE,
                      !.state.textError = displayError]
  IN IF k > 0 THEN [w1 EXCEPT !.state.textMessages = RemoveAt(@, k)] ELSE w1

\* a user event on the view: its state updates are rendered before the next event
TextEvent(w, op) ==
  /\ Becomes(w)
  /\ rendered' = Captured(w.state)
  /\ lastOp' = op
  /\ UNCHANGED <<initPc, onCloseIsRecording, decoding, nMsgs, heard, lastTurn, playLog,
                 stoppedMidAttempt>>

\* a continuation of handleSendMessage: its updates wait for the next render
TextStep(w, op) ==
  /\ Becomes(w)
  /\ lastOp' = op
  /\ UNCHANGED <<rendered, initPc, onCloseIsRecording, decoding, nMsgs, heard, lastTurn,
                 playLog, stoppedMidAttempt>>

MountTextChat(mode, created) ==
  /\ dev.textMode = "none"
  /\ TextEvent(mountTextChat(World, mode, created), Op("mountText", Null))

\* onChange of the textarea
TypeInput(v) ==
  /\ dev.textMode # "none"
  /\ state.textInput # v
  /\ TextEvent([World EXCEPT !.state.textInput = v], Op("type", Null))

\* the close icon of the error banner
DismissTextError ==
  /\ dev.textMode # "none"
  /\ state.textError # "none"
  /\ TextEvent([World EXCEPT !.state.textError = "none"], Op("dismiss", Null))

\* a click on Send or Enter in the textarea (the key reaches the handler whether or not
\* the button is disabled)
SendMessage ==
  /\ dev.textMode # "none"
  /\ \E i \in TextRequests :
       /\ dev.textRequests[i].pc = "idle"
       /\ \A q \in 1..(i - 1) : dev.textRequests[q].pc # "idle"
       /\ LET w == handleSendMessage(World, rendered.textInput, rendered.textIsLoading, i)
          IN TextEvent(w, Op(IF w.dev.textRequests[i].pc = "pending" THEN "send"
                             ELSE IF w.state = state THEN "sendIgnored"
                             ELSE "sendNoCall", i))

\* a render of the updates a continuation queued
TextRender ==
  /\ rendered # Captured(state)
  /\ TextEvent(World, Other)

\* sendTextChatMessageStream resolved: the for-await loop begins
StreamOpened(i) ==
  /\ dev.textMode = "text_chat"
  /\ dev.textRequests[i].pc = "pending"
  /\ TextStep([World EXCEPT !.dev.textRequests[i].pc = "streaming"], Op("streamOpened", i))

StreamChunk(i, chunk) ==
  /\ dev.textRequests[i].pc = "streaming"
  /\ Len(dev.textRequests[i].full) < MaxChunks
  /\ TextStep(streamChunk(World, i, chunk), Op("chunk", i))

StreamEnded(i) ==
  /\ dev.textRequests[i].pc = "streaming"
  /\ TextStep(streamEnded(World, i), Op("replied", i))

GrammarChecked(i, correction) ==
  /\ dev.textMode = "grammar_check"
  /\ dev.textRequests[i].pc = "pending"
  /\ TextStep(grammarChecked(World, i, correction), Op("replied", i))

\* the service call rejects, or the stream throws part-way
TextRequestFailed(i, errorMsg) ==
  /\ dev.textRequests[i].pc \in {"pending", "streaming"}
  /\ TextStep(textRequestFailed(World, i, errorMsg), Op("textFailed", i))

\* one TextChat instance from its mount on
NextTextChat ==
  \/ \E mode \in TextModes, created \in BOOLEAN : MountTextChat(mode, created)
  \/ \E v \in TextInputs : TypeInput(v)
  \/ DismissTextError
  \/ SendMessage
  \/ TextRender
  \/ \E i \in TextRequests : StreamOpened(i)
  \/ \E i \in TextRequests, chunk \in ChunkTexts : StreamChunk(i, chunk)
  \/ \E i \in TextRequests : StreamEnded(i)
  \/ \E i \in TextRequests, correction \in Corrections : GrammarChecked(i, correction)
  \/ \E i \in TextRequests, errorMsg \in TextErrorMessages : TextRequestFailed(i, errorMsg)


Next ==
  \/ NextSession
  \/ \E a \in Attempts, errorMsg \in ErrorMessages : OnError(a, errorMsg, TRUE)
  \/ \E resolved \in BOOLEAN : KeyDialogSettled(resolved)

\* the session lifecycle alone
Spec == Init /\ [][Next]_vars

\* established sessions with inbound audio and interruptions: the playback scheduler
SpecPlayback == Init /\ [][NextPlayback]_vars

\* the lifecycle with inbound transcription deltas and turn completions
SpecTranscript == Init /\ [][NextTranscript]_vars

\* the end-to-end scenario under every timing of the renders
SpecEndToEnd == Init /\ [][NextEndToEnd]_vars

\* a translation-practice session with its turn completions
SpecTranslator == Init /\ [][NextTranslator]_vars

\* on-demand pronunciation playback next to the session lifecycle
SpecPronunciation == Init /\ [][NextPronunciation]_vars

\* sessions with up to two feedback turns under the scheduling the runtime provides: the promise of
\* generateSpeechForText settles, decodeAudioData (a local computation) settles, and a
\* started or stopped source fires its 'ended' event
PronunciationFairness ==
  \A r \in Requests :
    /\ WF_vars(SpeechGenerated(r) \/ SpeechFailed(r))
    /\ WF_vars(SpeechDecoded(r) \/ SpeechDecodeFailed(r))
    /\ WF_vars(PronunciationEnded(r))

SpecPronunciationFair == Init /\ [][NextPronunciationFair]_vars /\ PronunciationFairness

\* the transport handler's forwarding of inbound messages to the conversation handler
SpecForward == Init /\ [][NextForward]_vars

\* an interruption racing with the decode of an earlier chunk
SpecInterruptRace == Init /\ [][NextInterruptRace]_vars

\* a conversation view that is left while its session is in any state
SpecUnmount == Init /\ [][NextUnmount]_vars

\* outbound microphone frames over the session lifecycle
SpecFrames == Init /\ [][NextFrames]_vars

\* the feedback parser applied to the AI text of a turn
SpecParse == Init /\ [][NextParse]_vars

\* the pronunciation-tip parser applied to the AI text of a translation-practice turn
SpecTranslatorParse == Init /\ [][NextTranslatorParse]_vars

\* text chat and grammar check
SpecTextChat == Init /\ [][NextTextChat]_vars


\* -------------------------------------------------------------- properties
OpenSessions == {a \in Attempts : dev.sock[a] = "open"}

\* no microphone stream, no audio context and no open live session is held
Released(w) ==
  /\ w.refs.liveSessionRef = Null
  /\ w.refs.mediaStreamRef = Null
  /\ w.refs.inputAudioContextRef = Null
  /\ w.refs.outputAudioContextRef = Null
  /\ \A a \in Attempts :
       /\ w.dev.stream[a] # "live"
       /\ w.dev.inCtx[a] # "running"
       /\ w.dev.outCtx[a] # "running"
       /\ w.dev.sock[a] # "open"

Chunks == 1..Len(playLog)

\* C1: when Stop was pressed while the microphone request or the connect of the current
\* attempt was pending, then once no request is pending any more the view holds no
\* microphone stream, no audio context and no open live session.
C1_StopSafeMidConnection ==
  (stoppedMidAttempt /\ \A a \in Attempts : ~Pending(a)) => Released(World)

\* C2: at most one live session is open at any time.
C2_AtMostOneOpenSession == Cardinality(OpenSessions) <= 1

\* C3: of two chunks started one after the other with no interruption, stop or start in
\* between, the later one starts no earlier than the earlier one's start plus its duration.
C3_GaplessNoOverlap ==
  Len(playLog) = 2 => playLog[2].at >= playLog[1].at + playLog[1].dur

C3_Witness ==
  /\ Len(playLog) = 2
  /\ playLog[2].at = playLog[1].at + playLog[1].dur
  /\ playLog[2].id > playLog[1].id

\* C4 as stated: after a message signalling interruption has been processed the set of
\* active sources is empty and nextStartTime equals the output clock's current time.
C4_InterruptResetsToClock ==
  lastOp.op = "interrupt" =>
    /\ refs.audioSourceNodesRef = {}
    /\ refs.nextStartTimeRef = dev.clock[lastOp.att]

\* C4 amended: after a message signalling interruption has been processed the set of
\* active sources is empty and nextStartTime is 0, however many sources were active.
C4_InterruptResetsToZero ==
  lastOp.op = "interrupt" =>
    /\ refs.audioSourceNodesRef = {}
    /\ refs.nextStartTimeRef = 0

C4_Witness ==
  /\ lastOp.op = "interrupt"
  /\ lastOp.cleared
  /\ dev.clock[lastOp.att] > 0

\* C5: chunks are started in the order their messages arrived: of two chunks started one
\* after the other, the later one belongs to the later message.
C5_ChunksStartInArrivalOrder ==
  \A i, j \in Chunks : i < j => playLog[i].id < playLog[j].id

\* C6: no chunk is started at a time earlier than the output clock's time at that moment.
C6_NeverScheduledInPast ==
  \A i \in Chunks : playLog[i].at >= playLog[i].now

\* the handlers that run stopConversation
TeardownOps == {"stop", "micDenied", "connectFailed", "error", "close"}

\* C7: nextStartTime decreases only in a step that processes an interruption, starts a
\* session or tears one down.
C7_NextStartTimeMonotonic ==
  [][refs'.nextStartTimeRef < refs.nextStartTimeRef =>
       lastOp'.op \in {"interrupt", "start"} \cup TeardownOps]_vars

C7_Witness ==
  /\ lastOp.op = "close"
  /\ lastOp.cleared
  /\ refs.nextStartTimeRef = 0

\* C8: when stopConversation runs while the referenced session is open, that session is
\* closed and its reference cleared, every microphone track is stopped and the stream
\* reference cleared, both audio contexts are closed and released, every active source is
\* stopped and the set emptied, nextStartTime is 0, both partial-transcript buffers are
\* empty and isRecording and isSessionReady are false.
C8_StopReleasesEverything ==
  [][(lastOp'.op \in TeardownOps /\ lastOp'.open) =>
       /\ dev'.sock[lastOp'.att] \in {"closing", "closed"}
       /\ refs'.liveSessionRef = Null
       /\ \A a \in Attempts : dev'.stream[a] # "live"
       /\ refs'.mediaStreamRef = Null
       /\ \A a \in Attempts : dev'.inCtx[a] # "running" /\ dev'.outCtx[a] # "running"
       /\ refs'.inputAudioContextRef = Null /\ refs'.outputAudioContextRef = Null
       /\ {n.id : n \in refs.audioSourceNodesRef} \subseteq dev'.stoppedSources
       /\ refs'.audioSourceNodesRef = {}
       /\ refs'.nextStartTimeRef = 0
       /\ state'.currentInputTranscription = NoText
       /\ state'.currentOutputTranscription = NoText
       /\ ~state'.isRecording /\ ~state'.isSessionReady]_vars

C8_Witness ==
  /\ lastOp.op = "stop" /\ lastOp.open
  /\ lastOp.cleared
  /\ dev.stream[lastOp.att] = "stopped"
  /\ dev.sock[lastOp.att] = "closing"
  /\ dev.outCtx[lastOp.att] = "closed"

\* C9: from every state, running stopConversation twice leaves what running it once
\* leaves, and that has every resource released.
C9_StopIdempotent ==
  /\ stopConversation(stopConversation(World)) = stopConversation(World)
  /\ Released(stopConversation(World))

\* C10: a turn completion finalizes, for each role, exactly the deltas delivered since the
\* previous turn completion, in arrival order.
C10_TurnTextIsAllDeltas ==
  lastTurn # NoTurn =>
    /\ lastTurn.user = lastTurn.expUser
    /\ lastTurn.ai = lastTurn.expAi

\* the transcript entries that turn completions appended: all but the greeting of onOpen
FinalizedTurns == SelectSeq(state.conversation, LAMBDA e : e.text # <<"greeting">>)

\* C11: once a session has opened, has received the input deltas "Hola" and " amigo" and
\* the output delta "Hello friend" and its turn has completed, the transcript holds exactly
\* two finalized turns, user "Hola amigo" then ai "Hello friend", neither with feedback.
C11_EndToEndTranscript ==
  (/\ lastTurn # NoTurn
   /\ lastTurn.expUser = <<"Hola", " amigo">>
   /\ lastTurn.expAi = <<"Hello friend">>)
  => FinalizedTurns =
       << [role |-> "user", text |-> <<"Hola", " amigo">>, feedback |-> NoFeedback],
          [role |-> "ai", text |-> <<"Hello friend">>, feedback |-> NoFeedback] >>

\* the entries a step appends to the transcript
Appended == SubSeq(state'.conversation, Len(state.conversation) + 1,
                   Len(state'.conversation))

\* a step that processes a turn completion
TurnCompletion(a, m) == m.turnComplete /\ OnTextMessage(a, m)

\* C12: processing a turn completion appends a turn for a role only if that role's
\* in-progress buffer (with the delta of the same message) is non-empty, and leaves both
\* in-progress buffers empty.
C12_TurnAppendedOnlyIfBuffered ==
  [][\A a \in Attempts, m \in TextMessages :
       TurnCompletion(a, m) =>
         /\ \A i \in 1..Len(Appended) :
              /\ Appended[i].role = "user" =>
                   state.currentInputTranscription \o m.input # NoText
              /\ Appended[i].role = "ai" =>
                   state.currentOutputTranscription \o m.output # NoText
         /\ state'.currentInputTranscription = NoText
         /\ state'.currentOutputTranscription = NoText]_vars

IsPrefix(s, t) == Len(s) <= Len(t) /\ SubSeq(t, 1, Len(s)) = s

\* C13: every step other than the start of a new session leaves the transcript a prefix of
\* the new transcript, and a turn completion that finalizes both roles appends the user
\* turn immediately before the AI turn.
C13_TranscriptAppendOnly ==
  [][/\ ~StartConversation(MaxAttempts) =>
          IsPrefix(state.conversation, state'.conversation)
     /\ \A a \in Attempts, m \in TextMessages :
          (TurnCompletion(a, m) /\ Len(Appended) = 2) =>
            Appended[1].role = "user" /\ Appended[2].role = "ai"]_vars

\* a turn completion has finalized both roles
C13_Witness ==
  /\ lastTurn # NoTurn
  /\ lastTurn.user # NoText
  /\ lastTurn.ai # NoText
  /\ Len(state.conversation) >= 3
  /\ state.conversation[Len(state.conversation) - 1].text = lastTurn.user
  /\ state.conversation[Len(state.conversation)].text = lastTurn.ai

\* C14: the session notes change only by the append of the feedback extracted at a turn
\* completion or by being emptied at the start of a new session; stop, error and close
\* leave them as they are.
C14_SessionNotesAppendOnly ==
  [][\/ state'.sessionNotes = state.sessionNotes
     \/ StartConversation(MaxAttempts) /\ state'.sessionNotes = <<>>
     \/ \E a \in Attempts, m \in TextMessages :
          /\ TurnCompletion(a, m)
          /\ Appended # <<>>
          /\ Appended[Len(Appended)].role = "ai"
          /\ Appended[Len(Appended)].feedback # NoFeedback
          /\ state'.sessionNotes =
               Append(state.sessionNotes, Appended[Len(Appended)].feedback)]_vars

\* notes taken during a session are still there after its teardown
C14_Witness ==
  /\ lastOp.op \in {"stop", "error", "close"}
  /\ state.sessionNotes # <<>>

\* C15: in translation practice the stage is 'spanish_input' when the session opens, and
\* the k-th turn completion after the open is processed under 'spanish_input' for odd k
\* and under 'english_pronunciation' for even k.
C15_StagesAlternate ==
  /\ lastOp.op = "open" => state.currentTurnStage = "spanish_input"
  /\ lastTurn # NoTurn =>
       lastTurn.stage = IF lastTurn.k % 2 = 1 THEN "spanish_input"
                                              ELSE "english_pronunciation"

\* C16: right after a start that failed at the microphone request or at the connect, the
\* start error is set and the view is in the pre-session state: not recording, not
\* loading, not ready, no session reference, no microphone stream, no audio context, no
\* active source.
C16_FailedStartLeavesPreSession ==
  lastOp.op \in {"micDenied", "connectFailed"} =>
    /\ state.error = "failed_to_start"
    /\ ~state.isRecording
    /\ ~state.isLoadingMedia
    /\ ~state.isSessionReady
    /\ refs.liveSessionRef = Null
    /\ refs.mediaStreamRef = Null
    /\ refs.inputAudioContextRef = Null
    /\ refs.outputAudioContextRef = Null
    /\ refs.audioSourceNodesRef = {}
    /\ \A a \in Attempts :
         /\ dev.stream[a] # "live"
         /\ dev.inCtx[a] # "running"
         /\ dev.outCtx[a] # "running"

\* a connect failed after the microphone had been granted, and the stream was stopped
C16_Witness ==
  /\ lastOp.op = "connectFailed"
  /\ state.error = "failed_to_start"
  /\ \E a \in Attempts : dev.stream[a] = "stopped" /\ dev.sock[a] = "closed"

\* stopConversation has run in the step: the session referenced before it is not open
\* any more and the view holds nothing of it
TornDown ==
  /\ ~state'.isRecording
  /\ ~state'.isSessionReady
  /\ refs.liveSessionRef # Null => dev'.sock[refs.liveSessionRef] # "open"
  /\ refs'.liveSessionRef = Null
  /\ refs'.mediaStreamRef = Null
  /\ refs'.inputAudioContextRef = Null
  /\ refs'.outputAudioContextRef = Null
  /\ refs'.audioSourceNodesRef = {}
  /\ refs'.nextStartTimeRef = 0
  /\ state'.currentInputTranscription = NoText
  /\ state'.currentOutputTranscription = NoText
  /\ \A a \in Attempts :
       /\ dev'.stream[a] # "live"
       /\ dev'.inCtx[a] # "running"
       /\ dev'.outCtx[a] # "running"

\* C17: every error delivered to onError tears the session down in the same step, unless
\* it opens a key-selection dialog; and the settling of a key-selection dialog, resolved
\* or rejected, tears the session down.
C17_ErrorTearsDown ==
  [][/\ \A a \in Attempts, errorMsg \in ErrorMessages, hasSelectKey \in BOOLEAN :
          OnError(a, errorMsg, hasSelectKey) =>
            \/ TornDown
            \/ hasSelectKey /\ dev'.keyDialogs = dev.keyDialogs + 1
     /\ \A resolved \in BOOLEAN : KeyDialogSettled(resolved) => TornDown]_vars

\* a rejected key-selection dialog has torn down a session that was still open
C17_Witness ==
  /\ lastOp.op = "keyDialog"
  /\ lastOp.open
  /\ state.error = "api_key_dialog_failed"
  /\ dev.sock[lastOp.att] = "closing"

\* C18: every close of a connection tears the session down, and the close of the open,
\* referenced connection of a view that is recording (no stop, no error teardown came
\* before it) sets the 'closed unexpectedly' error.
C18_UnexpectedCloseSurfaced ==
  [][\A a \in Attempts :
       OnClose(a) =>
         /\ TornDown
         /\ (state.isRecording /\ dev.sock[a] = "open" /\ refs.liveSessionRef = a) =>
              state'.error = "closed_unexpectedly"]_vars

\* C19: a transport error whose message carries the API's credential rejection surfaces
\* an 'API Key Error' message; every other error, a network failure included, surfaces
\* the generic '... Please try again.' message.
C19_ErrorsClassified ==
  [][\A a \in Attempts, errorMsg \in ErrorMessages, hasSelectKey \in BOOLEAN :
       OnError(a, errorMsg, hasSelectKey) =>
         IF errorMsg = "Requested entity was not found."
           THEN state'.error \in ApiKeyErrors
           ELSE state'.error = "conversation_error"]_vars

\* C20: when the decode of an audio chunk of the open, referenced session fails, the
\* session is torn down as for a transport error: an error is set and stopConversation
\* has run.
C20_DecodeFailureTearsDown ==
  [][\A id \in 1..MaxMsgs :
       (/\ DecodeFailed(id)
        /\ dev.sock[Handler(id).att] = "open"
        /\ refs.liveSessionRef = Handler(id).att)
       => TornDown /\ state'.error # "none"]_vars

\* the pronunciation requests being synthesised, decoded or played
InFlight == {r \in Requests : dev.pron[r] \in {"synth", "decode", "playing"}}

\* C21: at most one on-demand pronunciation playback is in flight at any time.
C21_OnePronunciationInFlight == Cardinality(InFlight) <= 1

\* C22: a failed pronunciation playback (synthesis, decode or start error) sets the
\* playback error and clears the in-flight marker, and leaves the live session, the
\* microphone stream, the audio contexts, the scheduler state, the transcript and the
\* recording and session-ready flags as they were.
C22_PronunciationFailureIsLocal ==
  [][\A r \in Requests :
       (SpeechFailed(r) \/ SpeechDecodeFailed(r)) =>
         /\ state'.error = "pronunciation_error"
         /\ state'.playingAudioKey = Null
         /\ refs' = refs
         /\ dev'.sock = dev.sock
         /\ dev'.stream = dev.stream
         /\ dev'.inCtx = dev.inCtx
         /\ dev'.outCtx = dev.outCtx
         /\ dev'.stoppedSources = dev.stoppedSources
         /\ state'.conversation = state.conversation
         /\ state'.sessionNotes = state.sessionNotes
         /\ state'.isRecording = state.isRecording
         /\ state'.isSessionReady = state.isSessionReady]_vars

\* a pronunciation playback has failed and the open session is still up and recording
C22_Witness ==
  /\ lastOp.op \in {"speechFailed", "speechDecodeFailed"}
  /\ state.error = "pronunciation_error"
  /\ state.isRecording
  /\ refs.liveSessionRef # Null
  /\ dev.sock[refs.liveSessionRef] = "open"
  /\ dev.stream[refs.liveSessionRef] = "live"

\* C23: a press of a pronunciation button of the transcript while no playback is in
\* flight is served (the synthesis is started) whether or not a live session is open.
C23_PronunciationIndependentOfSession ==
  [][\A r \in Requests :
       (PlayPronunciationExample(r) /\ rendered.playingAudioKey = Null) =>
         dev'.pron[r] = "synth"]_vars

\* the connect calls made so far, and the start actions accepted so far
Connects == Cardinality({a \in Attempts : dev.sock[a] # "none"})
Starts == Cardinality({a \in Attempts : initPc[a] # "idle"})

\* C24: there is no automatic reconnect: connect calls never outnumber the accepted start
\* actions, a connect is made only by a started attempt whose microphone request
\* resolved, attempts begin only with a start action, and an error, a close or the
\* settling of a key dialog leaves the view stopped with no new attempt and no new
\* connect.
C24_NoAutomaticReconnect ==
  [][/\ Connects' <= Starts'
     /\ Connects' > Connects => \E a \in Attempts : MicGranted(a)
     /\ Starts' > Starts => StartConversation(MaxAttempts)
     /\ lastOp'.op \in {"error", "close", "keyDialog"} =>
          /\ initPc' = initPc
          /\ Connects' = Connects
          /\ lastOp'.op # "error" \/ dev'.keyDialogs > dev.keyDialogs \/ ~state'.isRecording
          /\ lastOp'.op = "error" \/ ~state'.isRecording]_vars

\* an error has torn down an open session and nothing is pending or connecting
C24_Witness ==
  /\ lastOp.op = "error"
  /\ lastOp.open
  /\ ~state.isRecording
  /\ Connects >= 1
  /\ \A a \in Attempts : ~Pending(a) /\ dev.sock[a] # "connecting"

\* the AI text a turn completion hands to parseFeedback
Raw == refs.currentOutputTranscriptionRef

\* the transcript entry of an AI turn
AiTurn(text, feedback) == [role |-> "ai", text |-> text, feedback |-> feedback]

\* the last entry of the transcript
LastEntry == state.conversation[Len(state.conversation)]

\* C25: for text P followed by a block with the lines Type: Grammar, Original: X,
\* Correction: Y, Explanation: Z between the two markers, the turn completion appends
\* the AI turn with text P trimmed and the record {type: grammar, original: X,
\* correction: Y, explanation: Z}, each field trimmed.
C25_CanonicalBlockParsed ==
  [][\A a \in Attempts, P \in ConversationalTexts, X \in OriginalValues,
        Y \in CorrectionValues, Z \in ExplanationValues :
       (ParseTurnComplete(a) /\ Raw = Canonical(P, X, Y, Z)) =>
         Appended = <<AiTurn(Trim(P), [type |-> <<"grammar">>, original |-> Trim(X),
                                       correction |-> Trim(Y),
                                       explanation |-> Trim(Z)])>>]_vars

HasStart(t) == \E i \in 1..Len(t) : t[i] = feedbackStart
HasEnd(t) == \E i \in 1..Len(t) : t[i] = feedbackEnd

\* C26: when the start marker or the end marker is absent from the AI text, the turn
\* completion runs to its end and appends the AI turn without a feedback record and
\* stores no session note; with neither marker the turn's text is the entire input.
C26_MissingMarkerNoFeedback ==
  [][\A a \in Attempts :
       (ParseTurnComplete(a) /\ Raw # NoText /\ ~(HasStart(Raw) /\ HasEnd(Raw))) =>
         /\ Len(Appended) = 1
         /\ Appended[1].role = "ai"
         /\ Appended[1].feedback = NoFeedback
         /\ state'.sessionNotes = state.sessionNotes
         /\ (~HasStart(Raw) /\ ~HasEnd(Raw)) => Appended[1].text = Raw]_vars

\* a text with a start marker, a Correction field and no end marker has been finalized
\* without feedback
C26_Witness ==
  /\ lastTurn # NoTurn
  /\ lastTurn.raw = StartOnly
  /\ LastEntry.role = "ai"
  /\ LastEntry.feedback = NoFeedback

\* the tokens strictly between the two markers
Between(t) ==
  LET s == CHOOSE i \in 1..Len(t) : t[i] = feedbackStart /\ \A j \in 1..(i-1) : t[j] # feedbackStart
      e == CHOOSE i \in 1..Len(t) : t[i] = feedbackEnd /\ \A j \in 1..(i-1) : t[j] # feedbackEnd
  IN IF s < e THEN SubSeq(t, s + 1, e - 1) ELSE SubSeq(t, e + 1, s - 1)

\* the label occurs in the text, in any case
HasLabel(t, label) == \E i \in 1..Len(t) : Lower(t[i]) = label

\* C27: an AI turn gets a feedback record only if the text between the markers has a
\* Correction field; the labels are matched in any case and the first occurrence of a
\* field is the one taken; without a Type field the type is general, without an
\* Original or Explanation field that field is the empty string.
C27_FeedbackNeedsCorrection ==
  [][\A a \in Attempts :
       (ParseTurnComplete(a) /\ Raw # NoText) =>
         /\ Len(Appended) = 1
         /\ Appended[1].feedback # NoFeedback =>
              /\ HasStart(Raw) /\ HasEnd(Raw)
              /\ HasLabel(Between(Raw), "correction:")
              /\ ~HasLabel(Between(Raw), "type:") =>
                   Appended[1].feedback.type = <<"general">>
              /\ ~HasLabel(Between(Raw), "original:") =>
                   Appended[1].feedback.original = NoText
              /\ ~HasLabel(Between(Raw), "explanation:") =>
                   Appended[1].feedback.explanation = NoText
         /\ Raw = NoCorrection => Appended[1].feedback = NoFeedback
         /\ Raw = TwoCorrections => Appended[1].feedback.correction = <<"Y">>
         /\ Raw = UpperCaseLabels =>
              Appended[1].feedback = [type |-> <<"grammar">>, original |-> NoText,
                                      correction |-> <<"Y">>, explanation |-> NoText]]_vars

\* a block with two Correction fields and no other field has been finalized with the
\* first correction and the defaults
C27_Witness ==
  /\ lastTurn # NoTurn
  /\ lastTurn.raw = TwoCorrections
  /\ LastEntry = AiTurn(<<"Nice">>, [type |-> <<"general">>, original |-> NoText,
                                     correction |-> <<"Y">>, explanation |-> NoText])

FeedbackTypes ==
  {<<"grammar">>, <<"pronunciation">>, <<"vocabulary">>, <<"improvement">>, <<"general">>}

\* C28: every feedback record attached to a transcript turn or stored as a session note
\* has a type among grammar, pronunciation, vocabulary, improvement and general.
C28_FeedbackTypeInRange ==
  /\ \A i \in 1..Len(state.conversation) :
       state.conversation[i].feedback # NoFeedback =>
         state.conversation[i].feedback.type \in FeedbackTypes
  /\ \A i \in 1..Len(state.sessionNotes) :
       state.sessionNotes[i].type \in FeedbackTypes

\* the text before the pronunciation-tip marker
BeforeTip(t) == SubSeq(t, 1, IndexOf(t, pronunciationTipMarker) - 1)

\* C29: in translation practice the AI turn's exemplar is the first bold span of the
\* whole AI text; with the pronunciation-tip marker the turn gets feedback of type
\* pronunciation and its text is the text before the marker; with neither marker nor
\* bold span the turn gets no feedback.
C29_TipAndFirstBoldSpan ==
  [][\A a \in Attempts :
       (TranslatorTurnComplete(a) /\ Raw # NoText) =>
         /\ Len(Appended) = 1
         /\ Appended[1].role = "ai"
         /\ BoldMatch(Raw).found =>
              /\ Appended[1].feedback # NoFeedback
              /\ Appended[1].feedback.pronunciationExampleText = BoldMatch(Raw).value
         /\ IndexOf(Raw, pronunciationTipMarker) # 0 =>
              /\ Appended[1].feedback # NoFeedback
              /\ Appended[1].feedback.type = "pronunciation"
              /\ Appended[1].text = Trim(BeforeTip(Raw))
         /\ (IndexOf(Raw, pronunciationTipMarker) = 0 /\ ~BoldMatch(Raw).found) =>
              Appended[1].feedback = NoFeedback]_vars

\* the numbers of the blocks of attempt a that were captured while its session was open
OpenBlocks(a) == {k \in 1..Len(dev.blocks[a]) : dev.blocks[a][k]}

\* C30: on every session the transmitted frames are exactly the microphone blocks
\* captured while that session was open, each once and in capture order; a step sends a
\* frame on a session only while it is open, and a block captured after the session was
\* closed or stopped is dropped with no error raised.
C30_FramesWithinSessionLifetime ==
  [][\A a \in Attempts :
       /\ Cardinality(OpenBlocks(a)') = Len(dev'.frames[a])
       /\ \A i \in 1..Len(dev'.frames[a]) :
            /\ dev'.frames[a][i] \in OpenBlocks(a)'
            /\ \A j \in 1..(i-1) : dev'.frames[a][j] < dev'.frames[a][i]
       /\ dev'.frames[a] # dev.frames[a] =>
            /\ MicBlock(a)
            /\ dev.sock[a] = "open"
            /\ dev'.frames[a] = Append(dev.frames[a], Len(dev.blocks[a]) + 1)
       /\ (MicBlock(a) /\ dev.sock[a] # "open") =>
            /\ dev'.frames = dev.frames
            /\ state'.error = state.error]_vars

\* a session has sent two blocks in order and dropped one captured after its close
C30_Witness ==
  \E a \in Attempts :
    /\ dev.frames[a] = <<1, 2>>
    /\ Len(dev.blocks[a]) = 3
    /\ ~dev.blocks[a][3]
    /\ dev.sock[a] \in {"closing", "closed"}

\* the step has run the conversation handler on message m
Forwarded(m) == state' = onMessageLogic(World, m).state

\* the inbound handlers that finish in this step: suspended ones that leave the set of
\* pending decodes
Finishing == decoding \ decoding'

\* C31: every inbound message is forwarded to the conversation handler once, by the step
\* that finishes its transport handler, with or without audio or an interruption; when
\* the message signals an interruption the sources are stopped and nextStartTime is
\* reset before the conversation handler runs.
C31_EveryMessageForwardedOnce ==
  [][/\ \A h \in Finishing :
          /\ Forwarded(h.msg)
          /\ h.msg.interrupted =>
               refs'.audioSourceNodesRef = {} /\ refs'.nextStartTimeRef = 0
     /\ \A a \in Attempts, m \in ForwardMessages :
          (ForwardMessage(a, m) /\ m.audio = 0) =>
            /\ Forwarded(m)
            /\ m.interrupted =>
                 refs'.audioSourceNodesRef = {} /\ refs'.nextStartTimeRef = 0]_vars

\* C32: once the interruption (message 2 of the barge-in scenario) has been processed, the
\* chunk of message 1 is neither started nor in the set of active sources, also when its
\* decode was still pending at the interruption.
C32_InterruptCancelsEarlierChunks ==
  [][nMsgs >= 2 =>
       /\ ~DecodeDone(1)
       /\ \A n \in refs'.audioSourceNodesRef : n.id # 1]_vars

\* C33: a stop leaves the error state as it was, and so does the close event of a
\* connection that a stop had closed: no 'closed unexpectedly' error follows a user stop.
C33_StopNeverSurfacesCloseError ==
  [][/\ StopConversation => state'.error = state.error
     /\ \A a \in Attempts :
          (OnClose(a) /\ dev.sock[a] = "closing") => state'.error = state.error]_vars

\* the only session was stopped by the user and its close event has been delivered
C33_Witness ==
  /\ lastOp.op = "close"
  /\ lastOp.att = Null
  /\ ~stoppedMidAttempt
  /\ initPc[1] = "done"
  /\ \A a \in Attempts : a # 1 => initPc[a] = "idle"
  /\ dev.sock[1] = "closed"
  /\ state.error = "none"

\* what a late message of a stopped session must leave alone
StopLeft(w) ==
  [conversation |-> w.state.conversation,
   currentInputTranscription |-> w.state.currentInputTranscription,
   currentOutputTranscription |-> w.state.currentOutputTranscription,
   sessionNotes |-> w.state.sessionNotes,
   currentTurnStage |-> w.state.currentTurnStage,
   audioSourceNodesRef |-> w.refs.audioSourceNodesRef,
   nextStartTimeRef |-> w.refs.nextStartTimeRef]

\* C34: a step that delivers or resumes an inbound message of a session whose connection
\* stopConversation has closed leaves the transcript, both partial-transcript buffers,
\* the session notes, the turn stage, the active sources and nextStartTime unchanged.
C34_LateMessagesChangeNothing ==
  [][\A h \in decoding :
       (/\ DecodeDone(h.id)
        /\ lastOp.op = "stop"
        /\ dev.sock[h.att] \in {"closing", "closed"}) =>
         StopLeft(World)' = StopLeft(World)]_vars

\* C35: in translation practice every turn completion flips the turn stage, whatever the
\* buffers hold (also with no transcribed user input, when no user entry is appended);
\* a stop and the open of a session set the stage to 'spanish_input'.
C35_EveryTurnCompletionFlipsStage ==
  [][/\ \A a \in Attempts, m \in TranslatorMessages :
          (m.turnComplete /\ TranslatorMessage(a, m)) =>
            /\ state'.currentTurnStage # state.currentTurnStage
            /\ refs.currentInputTranscriptionRef = NoText =>
                 \A i \in 1..Len(Appended) : Appended[i].role # "user"
     /\ TranslatorStop => state'.currentTurnStage = "spanish_input"
     /\ \A a \in Attempts :
          TranslatorOpened(a) => state'.currentTurnStage = "spanish_input"]_vars

\* the AI turns of the transcript that carry a feedback record
TurnsWithFeedback ==
  SelectSeq(state.conversation, LAMBDA e : e.role = "ai" /\ e.feedback # NoFeedback)

\* C36: in tutor mode the session notes are, in order, the feedback records attached to
\* the AI turns of the current transcript: one note per AI turn with feedback, none for
\* any other turn.
C36_NotesMirrorTranscriptFeedback ==
  state.sessionNotes =
    [i \in 1..Len(TurnsWithFeedback) |-> TurnsWithFeedback[i].feedback]

\* a transcript with a note for its AI turn with feedback and none for its other turns
C36_Witness ==
  /\ Len(state.sessionNotes) = 1
  /\ Len(state.conversation) >= 3
  /\ \E i \in 1..Len(state.conversation) :
       state.conversation[i].feedback = state.sessionNotes[1]

\* C37: when the view has been unmounted and no microphone request or connect is pending
\* any more, it holds no open session, no live microphone stream, no running audio
\* context and no scheduled audio, as after a Stop.
C37_UnmountReleasesEverything ==
  (dev.unmounted /\ \A a \in Attempts : ~Pending(a)) =>
    /\ Released(World)
    /\ refs.audioSourceNodesRef = {}

\* the ids of the chunk handles in the set of active sources, before and after a step
ActiveIds == {n.id : n \in refs.audioSourceNodesRef}
ActiveIdsAfter == {n.id : n \in refs'.audioSourceNodesRef}

\* C38: the set of active sources changes in three ways only: a chunk's handle is added
\* by the step that schedules it, a handle is removed by its own ended signal, and the
\* set is emptied, every handle in it being stopped, by an interruption or a teardown;
\* so it holds exactly the handles scheduled and neither ended nor stopped, and is empty
\* once every scheduled chunk has ended.
C38_ActiveSourcesExact ==
  [][/\ \A id \in 1..Len(RaceScript) :
          /\ DecodeDone(id) =>
               ActiveIdsAfter = IF Handler(id).msg.interrupted THEN {}
                                                               ELSE ActiveIds \cup {id}
          /\ SourceEnded(id) => ActiveIdsAfter = ActiveIds \ {id}
     /\ ActiveIdsAfter # ActiveIds =>
          \/ \E id \in 1..Len(RaceScript) : DecodeDone(id) \/ SourceEnded(id)
          \/ /\ ActiveIdsAfter = {}
             /\ ActiveIds \subseteq dev'.stoppedSources
             /\ lastOp'.op \in {"interrupt", "stop", "close", "start"}]_vars

\* two chunks have been scheduled, one has ended and left the set, the other is in it
C38_Witness ==
  /\ Len(playLog) = 2
  /\ dev.stoppedSources = {}
  /\ Cardinality(refs.audioSourceNodesRef) = 1
  /\ \E n \in refs.audioSourceNodesRef : n.id = playLog[2].id

\* C39: every accepted on-demand playback request eventually clears the in-flight
\* marker: whenever playingAudioKey is set, a later state has it back at null, by the
\* end of the audio, by a failure of synthesis or decoding, or by a stop, provided the
\* synthesis call settles and started audio ends.
C39_MarkerEventuallyCleared ==
  (state.playingAudioKey # Null) ~> (state.playingAudioKey = Null)

\* a request was accepted, ran to its end inside a live session, and the marker is clear
C39_Witness ==
  /\ state.isRecording
  /\ state.playingAudioKey = Null
  /\ \E r \in Requests : dev.pron[r] = "done"

\* the transcript entries marked isThinking, and the requests whose handler has not returned
ThinkingEntries == {k \in 1..Len(state.textMessages) : state.textMessages[k].isThinking}
TextInFlight == {i \in TextRequests : dev.textRequests[i].pc \in {"pending", "streaming"}}

\* the transcript without its last entry
AllButLast(msgs) == SubSeq(msgs, 1, Len(msgs) - 1)

\* the last entry is the placeholder and the step turns it into the AI entry with text reply
PlaceholderBecomes(reply) ==
  /\ ThinkingEntries = {Len(state.textMessages)}
  /\ state'.textMessages = Append(AllButLast(state.textMessages), TextMessage("ai", reply, FALSE))

\* the last entry is the placeholder and the step removes it, leaving the user's message
\* last and an error set
PlaceholderRemoved ==
  /\ ThinkingEntries = {Len(state.textMessages)}
  /\ state'.textMessages = AllButLast(state.textMessages)
  /\ state'.textMessages[Len(state'.textMessages)].role = "user"
  /\ state'.textError # "none"

\* C40: in text chat and grammar check, a send issued while a request is in flight
\* changes nothing; at most one transcript entry is marked isThinking at any time, and
\* none is while no request is in flight; a request that succeeds turns the placeholder
\* into the final AI reply, and one that fails removes the placeholder, keeps the user's
\* message and sets an error.
C40_OneThinkingPlaceholder ==
  /\ [](/\ Cardinality(ThinkingEntries) <= 1
        /\ TextInFlight = {} => ThinkingEntries = {})
  /\ [][/\ SendMessage /\ TextInFlight # {} => state' = state /\ dev' = dev
        /\ \A i \in TextRequests :
             /\ StreamEnded(i) => PlaceholderBecomes(dev.textRequests[i].full)
             /\ \A correction \in Corrections :
                  GrammarChecked(i, correction) => PlaceholderBecomes(correction)
             /\ \A errorMsg \in TextErrorMessages :
                  TextRequestFailed(i, errorMsg) => PlaceholderRemoved]_vars

\* a send with text in the box was ignored while a request was in flight behind its
\* placeholder
C40_Witness ==
  /\ lastOp.op = "sendIgnored"
  /\ Trim(rendered.textInput) # NoText
  /\ TextInFlight # {}
  /\ Cardinality(ThinkingEntries) = 1

====
